---- MODULE Spec2Model ----
(***************************************************************************)
(* Entity extraction (extractEntities) and graph merging                   *)
(* (mergeEntityGraphs) of services/intelligence/entityExtractor.ts, the    *)
(* contradiction detector (detectContradictions), the useEditorComments    *)
(* hook, and sendMessage, abort and the edit actions of the agent          *)
(* orchestrator and the App Brain.                                         *)
(*                                                                         *)
(* A text is a sequence of tokens (words and punctuation marks).  Every    *)
(* token has a spelling, so character offsets, substring tests and suffix  *)
(* tests are computed on characters as the code computes them; the         *)
(* regular expressions are matched token by token.  A name is a sequence   *)
(* of tokens.  The mentions array of a node lives in a heap (arrays),      *)
(* because the object spread of mergeEntityGraphs copies the reference,    *)
(* not the array.                                                          *)
(***************************************************************************)
EXTENDS Integers, Sequences, FiniteSets, TLC

\* graphs:   the graphs the caller holds, in the order it got them
\* arrays:   the mentions arrays; a node refers to its array by position
\* nextId:   the next id generateId hands out
\* chapters: the number of graphs extractEntities has returned
\* pc:       the position inside the running call, "idle" between calls
\* ex, mg:   the locals of extractEntities and of mergeEntityGraphs
\* outcome:  how the last call ended
\* cd:       the running or last call of detectContradictions
\* ec:       the state of the useEditorComments hook, what it renders, and
\*           the callback called last with its argument
\* ag:       the state of the useAgentOrchestrator hook and its requests
\* ed:       the editor document and the edits submitted through the App
\*           Brain actions
VARIABLES graphs, arrays, nextId, chapters, pc, ex, mg, outcome, cd, ec, ag, ed

vars == <<graphs, arrays, nextId, chapters, pc, ex, mg, outcome, cd, ec, ag, ed>>

\* the state of the entity extractor and the graph merger
extractorVars == <<graphs, arrays, nextId, chapters, pc, ex, mg, outcome>>

\* the state of everything else
otherVars == <<cd, ec, ag, ed>>

-----------------------------------------------------------------------------
(* Bounds of the model *)

\* graphs the caller holds at most (loaded, extracted or merged)
MaxGraphs == 3

\* longest list handed to mergeEntityGraphs
MaxMergeLen == 3

\* chapters extracted into graphs, before and between merges
MaxChapters == 2

\* sentences of a text handed to extractEntities
MaxSentences == 2

\* evidence entries of an edge of a graph the caller built or loaded
MaxEvidence == 11

-----------------------------------------------------------------------------
(* Lexicon: the tokens of the modelled texts and their spelling *)

\* tokens of the form [A-Z][a-z]+
CapWords == {"Sarah", "Marcus", "The", "He", "She", "Red"}

\* the characters normalizeEntityName removes
Punct == {".", ",", "!", "?", ";", ":", "'"}

\* the sentence terminators of the proper-noun pattern
SentenceEnd == {".", "!", "?"}

\* String.prototype.toLowerCase on one token
Lower(w) ==
  CASE w = "Sarah" -> "sarah"
    [] w = "Marcus" -> "marcus"
    [] w = "The" -> "the"
    [] w = "He" -> "he"
    [] w = "She" -> "she"
    [] w = "Red" -> "red"
    [] OTHER -> w

\* the characters of a lower-cased token
SpellLower(l) ==
  CASE l = "sarah" -> <<"s", "a", "r", "a", "h">>
    [] l = "marcus" -> <<"m", "a", "r", "c", "u", "s">>
    [] l = "the" -> <<"t", "h", "e">>
    [] l = "he" -> <<"h", "e">>
    [] l = "she" -> <<"s", "h", "e">>
    [] l = "red" -> <<"r", "e", "d">>
    [] l = "loved" -> <<"l", "o", "v", "e", "d">>
    [] l = "killed" -> <<"k", "i", "l", "l", "e", "d">>
    [] l = "helped" -> <<"h", "e", "l", "p", "e", "d">>
    [] l = "and" -> <<"a", "n", "d">>
    [] l = "walked" -> <<"w", "a", "l", "k", "e", "d">>
    [] l = "together" -> <<"t", "o", "g", "e", "t", "h", "e", "r">>
    [] l = "known" -> <<"k", "n", "o", "w", "n">>
    [] l = "as" -> <<"a", "s">>
    [] l = "old" -> <<"o", "l", "d">>
    [] l = "man" -> <<"m", "a", "n">>
    [] l = "was" -> <<"w", "a", "s">>
    [] l = "in" -> <<"i", "n">>
    [] l = "him" -> <<"h", "i", "m">>
    [] l = "his" -> <<"h", "i", "s">>
    [] l = "himself" -> <<"h", "i", "m", "s", "e", "l", "f">>
    [] l = "her" -> <<"h", "e", "r">>
    [] l = "hers" -> <<"h", "e", "r", "s">>
    [] l = "herself" -> <<"h", "e", "r", "s", "e", "l", "f">>
    [] l = "they" -> <<"t", "h", "e", "y">>
    [] l = "'s" -> <<"'", "s">>
    [] l = "blue" -> <<"b", "l", "u", "e">>
    [] l = "green" -> <<"g", "r", "e", "e", "n">>
    [] l = "azure" -> <<"a", "z", "u", "r", "e">>
    [] l = "eyes" -> <<"e", "y", "e", "s">>
    [] l = "sparkled" -> <<"s", "p", "a", "r", "k", "l", "e", "d">>
    [] l = "30" -> <<"3", "0">>
    [] l = "32" -> <<"3", "2">>
    [] l = "33" -> <<"3", "3">>
    [] l = "years" -> <<"y", "e", "a", "r", "s">>
    [] l = "died" -> <<"d", "i", "e", "d">>
    [] l = "smiled" -> <<"s", "m", "i", "l", "e", "d">>
    [] l = "said" -> <<"s", "a", "i", "d">>
    [] l = "asked" -> <<"a", "s", "k", "e", "d">>
    [] l = "ran" -> <<"r", "a", "n">>
    [] l = "looked" -> <<"l", "o", "o", "k", "e", "d">>
    [] l = "nodded" -> <<"n", "o", "d", "d", "e", "d">>
    [] l = "shook" -> <<"s", "h", "o", "o", "k">>
    [] OTHER -> <<l>>

\* the characters of a token, lower-cased
Spell(w) == SpellLower(Lower(w))

\* the tokens written without a blank before them: the punctuation marks
\* and the possessive ending
Attached == Punct \cup {"'s"}

IsWord(w) == w \notin Attached

\* a token sequence written out: one blank between tokens, none before a
\* punctuation mark
RECURSIVE Chars(_)
Chars(toks) ==
  IF toks = <<>> THEN <<>>
  ELSE Chars(SubSeq(toks, 1, Len(toks) - 1))
         \o (IF Len(toks) = 1 \/ toks[Len(toks)] \in Attached THEN <<>> ELSE <<" ">>)
         \o Spell(toks[Len(toks)])

\* character offset (0-based) at which token i of the text starts
TokOffset(toks, i) ==
  IF i = 1 THEN 0
  ELSE Len(Chars(SubSeq(toks, 1, i - 1))) + (IF toks[i] \in Attached THEN 0 ELSE 1)

\* String.prototype.includes on character sequences
Includes(hay, needle) ==
  \E i \in 0..(Len(hay) - Len(needle)) :
    SubSeq(hay, i + 1, i + Len(needle)) = needle

\* String.prototype.endsWith on character sequences
EndsWith(s, suffix) ==
  /\ Len(suffix) <= Len(s)
  /\ SubSeq(s, Len(s) - Len(suffix) + 1, Len(s)) = suffix

\* name.toLowerCase() of a name
LowerName(name) == [i \in 1..Len(name) |-> Lower(name[i])]

RECURSIVE DropPunct(_)
DropPunct(toks) ==
  IF toks = <<>> THEN <<>>
  ELSE (IF Head(toks) \in Punct THEN <<>> ELSE <<Head(toks)>>)
         \o DropPunct(Tail(toks))

\* normalizeEntityName: trim, then delete every punctuation character
normalizeEntityName(name) == DropPunct(name)

FALSE_POSITIVES ==
  {"the", "a", "an", "this", "that", "these", "those", "it", "they", "we", "i",
   "he", "she", "him", "her", "his", "hers", "their", "our", "my", "your",
   "monday", "tuesday", "wednesday", "thursday", "friday", "saturday", "sunday",
   "january", "february", "march", "april", "may", "june", "july", "august",
   "september", "october", "november", "december",
   "morning", "afternoon", "evening", "night", "day", "week", "month", "year",
   "north", "south", "east", "west",
   "chapter", "part", "book", "section", "act", "scene",
   "said", "asked", "replied", "answered", "thought", "knew", "felt", "saw",
   "but", "and", "or", "if", "when", "then", "now", "here", "there",
   "yes", "no", "maybe", "perhaps", "certainly", "definitely",
   "one", "two", "three", "four", "five", "first", "second", "third", "last"}

MinNameLen == 2
MaxNameLen == 30

\* the checks of isValidEntityName on the normalised lower-cased name.  No
\* capitalised word of the lexicon is a numeral, so no name is purely numeric.
ValidNormalized(normalized) ==
  /\ ~(Len(normalized) = 1 /\ normalized[1] \in FALSE_POSITIVES)
  /\ Len(Chars(normalized)) >= MinNameLen
  /\ Len(Chars(normalized)) <= MaxNameLen

isValidEntityName(name) == ValidNormalized(normalizeEntityName(LowerName(name)))

-----------------------------------------------------------------------------
(* Raw entity scanner *)

\* ([A-Z][a-z]+(?:\s+[A-Z][a-z]+)?) starting at token i: one capitalised
\* word, or two when the next token is capitalised too
CapName(text, i) ==
  IF i + 1 <= Len(text) /\ text[i + 1] \in CapWords
    THEN <<text[i], text[i + 1]>>
    ELSE <<text[i]>>

\* the entity pushed for a match of a character pattern, if its name is valid
RawIfValid(name, type, offset) ==
  IF isValidEntityName(name)
    THEN <<[name |-> name, type |-> type, offset |-> offset]>>
    ELSE <<>>

\* Pattern 1 of extractCharactersFromText, scanning from token i:
\* (?:^|[.!?]\s+)([A-Z][a-z]+(?:\s+[A-Z][a-z]+)?)\b with the g flag.
\* match.index is the start of the whole match: the sentence terminator
\* when the name follows one.
RECURSIVE ProperNouns(_, _)
ProperNouns(text, i) ==
  IF i > Len(text) THEN <<>>
  ELSE IF i = 1 /\ text[1] \in CapWords
    THEN LET name == CapName(text, 1)
         IN RawIfValid(normalizeEntityName(name), "character", 0)
              \o ProperNouns(text, 1 + Len(name))
  ELSE IF text[i] \in SentenceEnd /\ i + 1 <= Len(text) /\ text[i + 1] \in CapWords
    THEN LET name == CapName(text, i + 1)
         IN RawIfValid(normalizeEntityName(name), "character", TokOffset(text, i))
              \o ProperNouns(text, i + 1 + Len(name))
  ELSE ProperNouns(text, i + 1)

\* The texts have no title, no quotation mark and no speech verb, so the
\* title pattern and the two dialogue-attribution patterns match nothing.
extractCharactersFromText(text) == ProperNouns(text, 1)

LOCATION_PREPOSITIONS ==
  <<"in", "at", "inside", "outside", "within", "near", "by", "behind",
    "before", "above", "below", "beneath", "beside", "between", "through",
    "across", "around", "toward", "towards", "into", "onto", "upon">>

\* ([A-Z][a-z]+(?:\s+[A-Z][a-z]+)*) starting at token i
RECURSIVE CapRun(_, _)
CapRun(text, i) ==
  IF i <= Len(text) /\ text[i] \in CapWords
    THEN <<text[i]>> \o CapRun(text, i + 1)
    ELSE <<>>

\* the entity pushed for a match of the preposition pattern, if any
LocationIfValid(name, offset) ==
  IF isValidEntityName(name) /\ Len(Chars(name)) > 2
    THEN <<[name |-> name, type |-> "location", offset |-> offset]>>
    ELSE <<>>

\* token at which the capitalised phrase starts after the preposition at i
AfterPrep(text, i) ==
  IF i + 1 <= Len(text) /\ text[i + 1] = "the" THEN i + 2 ELSE i + 1

\* \b<prep>\s+(?:the\s+)?([A-Z][a-z]+(?:\s+[A-Z][a-z]+)*)\b with the g flag
\* (case-sensitive), scanning from token i
RECURSIVE PrepLocations(_, _, _)
PrepLocations(text, prep, i) ==
  IF i > Len(text) THEN <<>>
  ELSE IF text[i] = prep /\ CapRun(text, AfterPrep(text, i)) # <<>>
    THEN LocationIfValid(normalizeEntityName(CapRun(text, AfterPrep(text, i))),
                         TokOffset(text, i))
           \o PrepLocations(text, prep,
                AfterPrep(text, i) + Len(CapRun(text, AfterPrep(text, i))))
  ELSE PrepLocations(text, prep, i + 1)

\* extractLocations: one scan per preposition, in the order of the list.
\* The lexicon has no place noun, so the "the X <place noun>" rule matches
\* nothing.
RECURSIVE LocationsFrom(_, _)
LocationsFrom(text, k) ==
  IF k > Len(LOCATION_PREPOSITIONS) THEN <<>>
  ELSE PrepLocations(text, LOCATION_PREPOSITIONS[k], 1) \o LocationsFrom(text, k + 1)

extractLocations(text) == LocationsFrom(text, 1)

\* The speakers of the dialogue lines, pushed after the scanned characters
\* exactly as given (no normalisation, no validation); a line without a
\* speaker (<<>>) is skipped.
RECURSIVE DialogueSpeakers(_)
DialogueSpeakers(dialogues) ==
  IF dialogues = <<>> THEN <<>>
  ELSE (IF Head(dialogues).speaker # <<>>
          THEN <<[name |-> Head(dialogues).speaker, type |-> "character",
                  offset |-> Head(dialogues).offset]>>
          ELSE <<>>)
         \o DialogueSpeakers(Tail(dialogues))

\* allRaw of extractEntities.  The lexicon has no object noun, so
\* extractObjects contributes nothing.
AllRaw(text, dialogues) ==
  extractCharactersFromText(text) \o DialogueSpeakers(dialogues)
    \o extractLocations(text)

-----------------------------------------------------------------------------
(* Entity consolidation *)

\* position of the node with this lower-cased name, 0 when there is none
\* (Map.has / Map.get on the lower-cased name)
FindKey(nodes, key) ==
  IF \E i \in 1..Len(nodes) : LowerName(nodes[i].name) = key
    THEN CHOOSE i \in 1..Len(nodes) : LowerName(nodes[i].name) = key
    ELSE 0

\* Array.prototype.sort with (a, b) => b[field] - a[field]: stable, descending
RECURSIVE InsertDesc(_, _, _)
InsertDesc(sorted, x, field) ==
  IF sorted = <<>> THEN <<x>>
  ELSE IF Head(sorted)[field] >= x[field]
    THEN <<Head(sorted)>> \o InsertDesc(Tail(sorted), x, field)
    ELSE <<x>> \o sorted

RECURSIVE SortDesc(_, _)
SortDesc(s, field) ==
  IF s = <<>> THEN <<>>
  ELSE InsertDesc(SortDesc(SubSeq(s, 1, Len(s) - 1), field), s[Len(s)], field)

\* The identifiers generateId can return: the random strings are distinct,
\* in no particular order.  The n-th identifier drawn is n when they come in
\* ascending order and -n when they come in descending order.
Generators == {"up", "down"}

generateId(gen, n) == IF gen = "up" THEN n ELSE 0 - n

\* the loop of consolidateEntities over raw entities k.. with the map so far
\* (in insertion order); id counts the identifiers drawn
RECURSIVE ConsolidateLoop(_, _, _, _, _, _)
ConsolidateLoop(raws, k, chapterId, nodes, id, gen) ==
  IF k > Len(raws) THEN nodes
  ELSE LET raw == raws[k]
           at == FindKey(nodes, LowerName(raw.name))
       IN IF at > 0
            THEN ConsolidateLoop(raws, k + 1, chapterId,
                   [nodes EXCEPT ![at].mentionCount = @ + 1,
                                 ![at].mentions =
                                    Append(@, [offset |-> raw.offset, chapterId |-> chapterId])],
                   id, gen)
            ELSE ConsolidateLoop(raws, k + 1, chapterId,
                   Append(nodes,
                     [id |-> generateId(gen, id), name |-> raw.name, type |-> raw.type,
                      aliases |-> <<>>, firstMention |-> raw.offset,
                      mentionCount |-> 1,
                      mentions |-> <<[offset |-> raw.offset, chapterId |-> chapterId]>>]),
                   id + 1, gen)

consolidateEntities(rawEntities, chapterId, id, gen) ==
  SortDesc(ConsolidateLoop(rawEntities, 1, chapterId, <<>>, id, gen), "mentionCount")

-----------------------------------------------------------------------------
(* Alias detection *)

\* ([A-Z][a-z]+),?\s+(?:known|called|nicknamed)\s+(?:as\s+)?([A-Z][a-z]+)
\* with the g flag, scanning from token i; a match is its two groups
RECURSIVE KnownAs(_, _)
KnownAs(text, i) ==
  IF i > Len(text) THEN <<>>
  ELSE LET n == Len(text)
           j == IF i + 1 <= n /\ text[i + 1] = "," THEN i + 2 ELSE i + 1
           k == IF j + 1 <= n /\ text[j + 1] = "as" THEN j + 2 ELSE j + 1
       IN IF /\ text[i] \in CapWords
             /\ j <= n /\ text[j] \in {"known", "called", "nicknamed"}
             /\ k <= n /\ text[k] \in CapWords
            THEN <<[g1 |-> <<text[i]>>, g2 |-> <<text[k]>>]>> \o KnownAs(text, k + 1)
            ELSE KnownAs(text, i + 1)

\* ([A-Z][a-z]+),?\s+whose\s+(?:real|true)\s+name\s+(?:was|is)\s+([A-Z][a-z]+)
RECURSIVE WhoseName(_, _)
WhoseName(text, i) ==
  IF i > Len(text) THEN <<>>
  ELSE LET n == Len(text)
           j == IF i + 1 <= n /\ text[i + 1] = "," THEN i + 2 ELSE i + 1
       IN IF /\ text[i] \in CapWords
             /\ j + 4 <= n
             /\ text[j] = "whose"
             /\ text[j + 1] \in {"real", "true"}
             /\ text[j + 2] = "name"
             /\ text[j + 3] \in {"was", "is"}
             /\ text[j + 4] \in CapWords
            THEN <<[g1 |-> <<text[i]>>, g2 |-> <<text[j + 4]>>]>>
                   \o WhoseName(text, j + 5)
            ELSE WhoseName(text, i + 1)

\* (?:^|[.!?]\s+)(the\s+[a-z]+\s+[a-z]+)\s+(?:was|had|did|could|would|said|asked)
\* with the gi flags: does it match anywhere?  The pattern has one group.
TheDescriptorMatches(text) ==
  \E i \in 1..Len(text) :
    /\ IF i = 1 THEN TRUE ELSE text[i - 1] \in SentenceEnd
    /\ i + 3 <= Len(text)
    /\ Lower(text[i]) = "the"
    /\ IsWord(text[i + 1])
    /\ IsWord(text[i + 2])
    /\ Lower(text[i + 3]) \in {"was", "had", "did", "could", "would", "said", "asked"}

IncludesElem(s, x) == \E i \in 1..Len(s) : s[i] = x

PushNew(s, x) == IF IncludesElem(s, x) THEN s ELSE Append(s, x)

\* the body of the match loop for one match with two groups: the loop over
\* the entities
ApplyAlias(nodes, m) ==
  LET name1 == LowerName(normalizeEntityName(m.g1))
      name2 == LowerName(normalizeEntityName(m.g2))
  IN [i \in 1..Len(nodes) |->
        IF LowerName(nodes[i].name) = name1
          THEN [nodes[i] EXCEPT !.aliases = PushNew(@, m.g2)]
        ELSE IF LowerName(nodes[i].name) = name2
          THEN [nodes[i] EXCEPT !.aliases = PushNew(@, m.g1)]
        ELSE nodes[i]]

RECURSIVE ApplyAliases(_, _)
ApplyAliases(nodes, ms) ==
  IF ms = <<>> THEN nodes
  ELSE ApplyAliases(ApplyAlias(nodes, Head(ms)), Tail(ms))

\* detectAliases raises a TypeError at the first match of the third pattern:
\* match[2] is undefined there and normalizeEntityName calls trim on it
detectAliasesRaises(text) == TheDescriptorMatches(text)

\* detectAliases when it does not raise: the nodes with their aliases
detectAliases(text, nodes) ==
  ApplyAliases(nodes, KnownAs(text, 1) \o WhoseName(text, 1))

-----------------------------------------------------------------------------
(* Pronoun resolution *)

MALE_PRONOUNS == <<"he", "him", "his", "himself">>
FEMALE_PRONOUNS == <<"she", "her", "hers", "herself">>
NEUTRAL_PRONOUNS == <<"they", "them", "their", "theirs", "themselves">>

Elems(s) == {s[i] : i \in 1..Len(s)}

femaleEndings ==
  {<<"a">>, <<"i", "a">>, <<"i", "n", "a">>, <<"e", "l", "l", "a">>,
   <<"a", "n", "n", "a">>, <<"e", "t", "t", "e">>, <<"e", "l", "l", "e">>}

maleEndings == {<<"i", "u", "s">>, <<"u", "s">>, <<"s", "o", "n">>, <<"t", "o", "n">>}

\* characters looked at on each side of a mention by inferGender
GenderWindow == 100

\* mentions of a node inferGender looks at
GenderMentions == 5

Min(a, b) == IF a < b THEN a ELSE b
Max(a, b) == IF a > b THEN a ELSE b

\* text.slice(from, to) on characters (0-based, end exclusive)
Slice(chars, from, to) == SubSeq(chars, from + 1, Min(to, Len(chars)))

\* number of pronouns of the list that occur in the context as substrings
PronounCount(context, pronouns) ==
  Cardinality({i \in 1..Len(pronouns) : Includes(context, Spell(pronouns[i]))})

\* the context of a mention in inferGender: the text around it
MentionContext(chars, nameLen, offset) ==
  Slice(chars, Max(0, offset - GenderWindow),
        Min(Len(chars), offset + nameLen + GenderWindow))

\* the verdict of inferGender on one context, "unknown" when it goes on to
\* the next mention
ContextGender(context) ==
  IF PronounCount(context, MALE_PRONOUNS)
       > PronounCount(context, FEMALE_PRONOUNS) + 1 THEN "male"
  ELSE IF PronounCount(context, FEMALE_PRONOUNS)
            > PronounCount(context, MALE_PRONOUNS) + 1 THEN "female"
  ELSE "unknown"

\* the mention loop of inferGender from mention k on
RECURSIVE GenderFromContext(_, _, _, _)
GenderFromContext(nameLen, mentions, chars, k) ==
  IF k > Min(Len(mentions), GenderMentions) THEN "unknown"
  ELSE IF ContextGender(MentionContext(chars, nameLen, mentions[k].offset)) # "unknown"
    THEN ContextGender(MentionContext(chars, nameLen, mentions[k].offset))
  ELSE GenderFromContext(nameLen, mentions, chars, k + 1)

\* the verdict of the name endings, "unknown" when none applies
EndingGender(nameLower) ==
  IF \E e \in femaleEndings : EndsWith(nameLower, e) THEN "female"
  ELSE IF \E e \in maleEndings : EndsWith(nameLower, e) THEN "male"
  ELSE "unknown"

\* inferGender: the name endings first, then the context of the mentions
inferGender(entity, text) ==
  IF EndingGender(Chars(LowerName(entity.name))) # "unknown"
    THEN EndingGender(Chars(LowerName(entity.name)))
    ELSE GenderFromContext(Len(Chars(entity.name)), entity.mentions, Chars(text), 1)

RECURSIVE FilterSeq(_, _)
FilterSeq(s, keep) ==
  IF s = <<>> THEN <<>>
  ELSE (IF Head(s) \in keep THEN <<Head(s)>> ELSE <<>>) \o FilterSeq(Tail(s), keep)

\* entities.filter(e => e.type === 'character')
Characters(nodes) == FilterSeq(nodes, {n \in Elems(nodes) : n.type = "character"})

\* the genders a pronoun accepts
WantedGenders(p) ==
  IF p \in Elems(MALE_PRONOUNS) THEN {"male", "unknown"}
  ELSE IF p \in Elems(FEMALE_PRONOUNS) THEN {"female", "unknown"}
  ELSE {"male", "female", "neutral", "unknown"}

\* the gender filter keeps its result unless it is empty
KeepUnlessEmpty(gendered, characters) ==
  IF gendered # <<>> THEN gendered ELSE characters

\* the candidates of resolvePronoun after the gender filter
Candidates(pronoun, characters, text) ==
  KeepUnlessEmpty(
    FilterSeq(characters,
      {e \in Elems(characters) : inferGender(e, text) \in WantedGenders(Lower(pronoun))}),
    characters)

\* no distance: bestDistance still Infinity
Infinity == 1000000

\* the best candidate after one mention at offset mo of the candidate id
Closer(best, id, mo, offset) ==
  IF mo < offset /\ offset - mo < best.distance
    THEN [id |-> id, distance |-> offset - mo]
    ELSE best

\* the search loop of resolvePronoun over candidate c, mention m, with the
\* best candidate and distance so far
RECURSIVE ClosestPreceding(_, _, _, _, _)
ClosestPreceding(cands, offset, c, m, best) ==
  IF c > Len(cands) THEN best
  ELSE IF m > Len(cands[c].mentions) THEN ClosestPreceding(cands, offset, c + 1, 1, best)
  ELSE ClosestPreceding(cands, offset, c, m + 1,
         Closer(best, cands[c].id, cands[c].mentions[m].offset, offset))

NearDistance == 100
FarDistance == 300

\* confidence by distance, in tenths
Confidence(distance) ==
  IF distance < NearDistance THEN 9 ELSE IF distance < FarDistance THEN 7 ELSE 5

\* the co-reference resolvePronoun returns for the best candidate
CoReference(pronoun, offset, best) ==
  [found |-> TRUE, pronoun |-> pronoun, offset |-> offset,
   resolvedTo |-> best.id, confidence |-> Confidence(best.distance)]

\* resolvePronoun once the candidates are filtered: none when there is no
\* candidate
ResolveAmong(pronoun, offset, cands) ==
  IF cands = <<>> THEN [found |-> FALSE]
  ELSE CoReference(pronoun, offset,
         ClosestPreceding(cands, offset, 1, 1,
                          [id |-> cands[1].id, distance |-> Infinity]))

resolvePronoun(pronoun, offset, recentEntities, text) ==
  ResolveAmong(pronoun, offset, Candidates(pronoun, Characters(recentEntities), text))

AllPronouns == Elems(MALE_PRONOUNS) \cup Elems(FEMALE_PRONOUNS) \cup Elems(NEUTRAL_PRONOUNS)

\* the matches of the pronoun pattern (gi flags) from token i on
RECURSIVE PronounMatches(_, _)
PronounMatches(text, i) ==
  IF i > Len(text) THEN <<>>
  ELSE (IF Lower(text[i]) \in AllPronouns
          THEN <<[pronoun |-> text[i], offset |-> TokOffset(text, i)]>>
          ELSE <<>>)
         \o PronounMatches(text, i + 1)

\* first node with this id (Array.prototype.find), 0 when none
FindId(nodes, id) ==
  IF \E i \in 1..Len(nodes) : nodes[i].id = id
    THEN CHOOSE i \in 1..Len(nodes) :
           nodes[i].id = id /\ \A j \in 1..(i - 1) : nodes[j].id # id
    ELSE 0

MinConfidence == 5

\* the mention pushed on node number at, and its count incremented
AddMention(nodes, at, offset, chapterId) ==
  [nodes EXCEPT ![at].mentions = Append(@, [offset |-> offset, chapterId |-> chapterId]),
                ![at].mentionCount = @ + 1]

\* the body of the loop of resolvePronounsInText for a resolution
AcceptResolution(nodes, resolved, chapterId) ==
  IF ~resolved.found THEN nodes
  ELSE IF resolved.confidence >= MinConfidence /\ FindId(nodes, resolved.resolvedTo) > 0
    THEN AddMention(nodes, FindId(nodes, resolved.resolvedTo), resolved.offset, chapterId)
  ELSE nodes

\* one iteration of the loop of resolvePronounsInText: the nodes after the
\* pronoun match pm
ResolveOne(text, nodes, chapterId, pm) ==
  AcceptResolution(nodes, resolvePronoun(pm.pronoun, pm.offset, nodes, text), chapterId)

-----------------------------------------------------------------------------
(* Relationship detection *)

\* a key that keeps only the smaller id of the pair
SmallerId(a, b) == IF a <= b THEN <<a, a>> ELSE <<b, b>>

\* [a, b].sort().join('-'): the key of the unordered pair
EdgeKey(a, b) == IF a <= b THEN <<a, b>> ELSE <<b, a>>

\* position of the edge with this key in the edge map, 0 when none
FindEdge(edges, key) ==
  IF \E i \in 1..Len(edges) : EdgeKey(edges[i].source, edges[i].target) = key
    THEN CHOOSE i \in 1..Len(edges) : EdgeKey(edges[i].source, edges[i].target) = key
    ELSE 0

\* characters of a paragraph snippet kept as evidence
SnippetLen == 100

\* the entities whose lower-cased name occurs in the paragraph text
PresentEntities(text, entities, para) ==
  LET paraText == Slice(Chars(text), para.offset, para.offset + para.length)
  IN FilterSeq(entities,
       {e \in Elems(entities) : Includes(paraText, Chars(LowerName(e.name)))})

\* the body of the pair loop of Method 1 for the pair (source, target).
\* An evidence entry is the place of the snippet in the text, and whether it
\* was lower-cased (paraText is, match[0] is not).
CoOccur(edges, source, target, para, chapterId, id) ==
  LET at == FindEdge(edges, EdgeKey(source.id, target.id))
  IN IF at > 0
       THEN [edges EXCEPT ![at].coOccurrences = @ + 1,
                          ![at].chapters = PushNew(@, chapterId)]
       ELSE Append(edges,
              [id |-> id, source |-> source.id, target |-> target.id,
               type |-> "interacts", coOccurrences |-> 1, sentiment |-> 0,
               chapters |-> <<chapterId>>,
               evidence |-> <<[at |-> para.offset,
                               len |-> Min(para.length, SnippetLen),
                               lower |-> TRUE]>>])

\* the pair loops of Method 1 over the present entities, from pair (i, j) on
RECURSIVE PairLoop(_, _, _, _, _, _, _, _)
PairLoop(edges, present, i, j, para, chapterId, id, gen) ==
  IF i > Len(present) THEN edges
  ELSE IF j > Len(present)
    THEN PairLoop(edges, present, i + 1, i + 2, para, chapterId, id, gen)
  ELSE LET next == CoOccur(edges, present[i], present[j], para, chapterId,
                           generateId(gen, id + Len(edges)))
       IN PairLoop(next, present, i, j + 1, para, chapterId, id, gen)

\* one iteration of the paragraph loop of Method 1; the edges get the
\* identifiers drawn after the first id
CoOccurrenceStep(text, entities, para, chapterId, edges, id, gen) ==
  PairLoop(edges, PresentEntities(text, entities, para), 1, 2, para, chapterId,
           id, gen)

RELATIONSHIP_PATTERNS ==
  <<[verbs |-> {"loved", "kissed", "embraced", "married"}, together |-> FALSE,
     type |-> "related_to"],
    [verbs |-> {"attacked", "fought", "killed", "struck", "hit"}, together |-> FALSE,
     type |-> "opposes"],
    [verbs |-> {"helped", "saved", "protected", "defended"}, together |-> FALSE,
     type |-> "allied_with"],
    [verbs |-> {"worked", "traveled", "walked", "ran"}, together |-> TRUE,
     type |-> "allied_with"],
    [verbs |-> {"hated", "despised", "feared"}, together |-> FALSE,
     type |-> "opposes"],
    [verbs |-> {"trusted", "believed", "followed"}, together |-> FALSE,
     type |-> "allied_with"]>>

\* the matches of one relationship pattern (gi flags) from token i on:
\* (\w+)\s+<verb>\s+(\w+), or (\w+)\s+and\s+(\w+)\s+<verb>\s+together
RECURSIVE PatternMatches(_, _, _)
PatternMatches(text, pat, i) ==
  IF i > Len(text) THEN <<>>
  ELSE LET n == Len(text)
           plain == /\ ~pat.together
                    /\ i + 2 <= n
                    /\ IsWord(text[i])
                    /\ Lower(text[i + 1]) \in pat.verbs
                    /\ IsWord(text[i + 2])
           both == /\ pat.together
                   /\ i + 4 <= n
                   /\ IsWord(text[i])
                   /\ Lower(text[i + 1]) = "and"
                   /\ IsWord(text[i + 2])
                   /\ Lower(text[i + 3]) \in pat.verbs
                   /\ Lower(text[i + 4]) = "together"
       IN IF plain
            THEN <<[g1 |-> <<text[i]>>, g2 |-> <<text[i + 2]>>, type |-> pat.type,
                    at |-> TokOffset(text, i),
                    len |-> Len(Chars(SubSeq(text, i, i + 2)))]>>
                   \o PatternMatches(text, pat, i + 3)
          ELSE IF both
            THEN <<[g1 |-> <<text[i]>>, g2 |-> <<text[i + 2]>>, type |-> pat.type,
                    at |-> TokOffset(text, i),
                    len |-> Len(Chars(SubSeq(text, i, i + 4)))]>>
                   \o PatternMatches(text, pat, i + 5)
          ELSE PatternMatches(text, pat, i + 1)

\* every match of Method 2 in the order the loops meet them
RECURSIVE RelationshipMatches(_, _)
RelationshipMatches(text, k) ==
  IF k > Len(RELATIONSHIP_PATTERNS) THEN <<>>
  ELSE PatternMatches(text, RELATIONSHIP_PATTERNS[k], 1)
         \o RelationshipMatches(text, k + 1)

\* entities.find(e => e.name.toLowerCase() === name), 0 when none
FindName(entities, name) ==
  IF \E i \in 1..Len(entities) : LowerName(entities[i].name) = name
    THEN CHOOSE i \in 1..Len(entities) :
           /\ LowerName(entities[i].name) = name
           /\ \A j \in 1..(i - 1) : LowerName(entities[j].name) # name
    ELSE 0

\* an upgrade that lets every later match set the type
TakeLaterType(old, new) == new

\* the type an existing edge gets from an explicit match
UpgradeType(old, new) == IF old = "interacts" THEN new ELSE old

\* the edge map after a match whose names are entities e1 and e2
ExplicitEdge(edges, at, source, target, m, chapterId, id) ==
  IF at > 0
    THEN [edges EXCEPT ![at].type = UpgradeType(@, m.type),
                       ![at].evidence = Append(@, [at |-> m.at, len |-> m.len,
                                                    lower |-> FALSE])]
    ELSE Append(edges,
           [id |-> id, source |-> source, target |-> target, type |-> m.type,
            coOccurrences |-> 1,
            sentiment |-> IF m.type = "opposes" THEN -5 ELSE 5,
            chapters |-> <<chapterId>>,
            evidence |-> <<[at |-> m.at, len |-> m.len, lower |-> FALSE]>>])

\* the match once both names are looked up (0: no such entity)
ExplicitFound(entities, edges, e1, e2, m, chapterId, id) ==
  IF e1 = 0 \/ e2 = 0 THEN edges
  ELSE ExplicitEdge(edges, FindEdge(edges, EdgeKey(entities[e1].id, entities[e2].id)),
                    entities[e1].id, entities[e2].id, m, chapterId, id)

\* the body of the match loop of Method 2 for one match
ExplicitStep(entities, edges, m, chapterId, id) ==
  ExplicitFound(entities, edges,
                FindName(entities, LowerName(normalizeEntityName(m.g1))),
                FindName(entities, LowerName(normalizeEntityName(m.g2))),
                m, chapterId, id)

-----------------------------------------------------------------------------
(* Graph merging *)

\* [...new Set(s)]: the elements of s without repetition, first occurrences
\* in order
RECURSIVE Dedupe(_)
Dedupe(s) ==
  IF s = <<>> THEN <<>>
  ELSE LET front == Dedupe(SubSeq(s, 1, Len(s) - 1))
       IN PushNew(front, s[Len(s)])

\* evidence entries an edge keeps when two edges are combined
EvidenceCap == 10

\* the new firstMention of an existing node
EarliestMention(existing, incoming) ==
  IF incoming < existing THEN incoming ELSE existing

\* a node merge that keeps the count of the later graph instead of the sum
KeepLaterCount(existing, incoming) == incoming

\* the new mentionCount of an existing node
AddCounts(existing, incoming) == existing + incoming

\* a copy that loses the aliases of the node
CopyWithoutAliases(node) == [node EXCEPT !.aliases = <<>>]

\* the first entry of a name in the node map: the object spread { ...node }
\* copies the fields, so the copy refers to the same mentions array
CopyNode(node) == node

\* the node loop of mergeEntityGraphs over the nodes k.. of one graph: the
\* node map and the heap of mentions arrays after it
RECURSIVE MergeNodes(_, _, _, _)
MergeNodes(nodes, k, nodeMap, heap) ==
  IF k > Len(nodes) THEN [nodeMap |-> nodeMap, heap |-> heap]
  ELSE LET node == nodes[k]
           at == FindKey(nodeMap, LowerName(node.name))
       IN IF at > 0
            THEN MergeNodes(nodes, k + 1,
                   [nodeMap EXCEPT
                      ![at].mentionCount = AddCounts(@, node.mentionCount),
                      ![at].aliases = Dedupe(@ \o node.aliases),
                      ![at].firstMention = EarliestMention(@, node.firstMention)],
                   [heap EXCEPT ![nodeMap[at].mentions] = @ \o heap[node.mentions]])
            ELSE MergeNodes(nodes, k + 1, Append(nodeMap, CopyNode(node)), heap)

\* the new type of an existing edge
MergeType(existing, incoming) ==
  IF existing = "interacts" /\ incoming # "interacts" THEN incoming ELSE existing

\* the evidence of an existing edge after an edge with the same key
MergeEvidence(existing, incoming) ==
  SubSeq(existing \o incoming, 1, Min(Len(existing) + Len(incoming), EvidenceCap))

\* the first entry of a key in the edge map: { ...edge }
CopyEdge(edge) == edge

\* the edge loop of mergeEntityGraphs over the edges k.. of one graph
RECURSIVE MergeEdges(_, _, _)
MergeEdges(edges, k, edgeMap) ==
  IF k > Len(edges) THEN edgeMap
  ELSE LET edge == edges[k]
           at == FindEdge(edgeMap, EdgeKey(edge.source, edge.target))
       IN IF at > 0
            THEN MergeEdges(edges, k + 1,
                   [edgeMap EXCEPT
                      ![at].coOccurrences = @ + edge.coOccurrences,
                      ![at].chapters = Dedupe(@ \o edge.chapters),
                      ![at].evidence = MergeEvidence(@, edge.evidence),
                      ![at].type = MergeType(@, edge.type)])
            ELSE MergeEdges(edges, k + 1, Append(edgeMap, CopyEdge(edge)))

\* mergeEntityGraphs as a function of the list: the graph returned for the
\* graphs at the positions list[k..] of held, starting from the two maps
RECURSIVE MergeAll(_, _, _, _, _, _)
RECURSIVE MergeRest(_, _, _, _, _)
MergeAll(held, list, k, nodeMap, edgeMap, heap) ==
  IF k > Len(list)
    THEN [nodes |-> SortDesc(nodeMap, "mentionCount"),
          edges |-> SortDesc(edgeMap, "coOccurrences")]
    ELSE MergeRest(held, list, k,
                   MergeNodes(held[list[k]].nodes, 1, nodeMap, heap),
                   MergeEdges(held[list[k]].edges, 1, edgeMap))

\* the rest of the loop over the graphs, after the node loop and the edge
\* loop of the graph at position k
MergeRest(held, list, k, merged, edgeMap) ==
  MergeAll(held, list, k + 1, merged.nodeMap, edgeMap, merged.heap)

-----------------------------------------------------------------------------
(* Inputs *)

Sentences ==
  {<<"Sarah", "loved", "Marcus", ".">>,
   <<"Marcus", "killed", "Sarah", ".">>,
   <<"Marcus", "killed", "Marcus", ".">>,
   <<"Sarah", "and", "Marcus", "walked", "together", ".">>,
   <<"He", "helped", "Sarah", ".">>,
   <<"Marcus", ",", "known", "as", "Red", ".">>,
   <<"She", "was", "in", "Red", ".">>,
   <<"The", "old", "man", "was", ".">>}

\* the texts of at most n sentences
RECURSIVE TextsUpTo(_, _)
TextsUpTo(sentences, n) ==
  IF n = 0 THEN {<<>>}
  ELSE LET shorter == TextsUpTo(sentences, n - 1)
       IN shorter \cup {t \o s : t \in shorter, s \in sentences}

\* the paragraph covering tokens i..j of the text
Paragraph(text, i, j) ==
  [offset |-> TokOffset(text, i),
   length |-> Len(Chars(SubSeq(text, 1, j))) - TokOffset(text, i)]

\* one paragraph per sentence, from token i on
RECURSIVE SentenceParagraphs(_, _)
SentenceParagraphs(text, i) ==
  IF i > Len(text) THEN <<>>
  ELSE LET j == CHOOSE j \in i..Len(text) :
                  /\ text[j] \in SentenceEnd
                  /\ \A k \in i..(j - 1) : text[k] \notin SentenceEnd
       IN <<Paragraph(text, i, j)>> \o SentenceParagraphs(text, j + 1)

\* the classified paragraphs a text comes with: none, one for the whole
\* text, or one per sentence
ParagraphsOf(text) ==
  IF text = <<>> THEN {<<>>}
  ELSE {<<>>, <<Paragraph(text, 1, Len(text))>>, SentenceParagraphs(text, 1)}

\* the dialogue lines a text comes with: none, or one line at offset 0
\* whose speaker is given with or without a trailing full stop
DialoguesOf(text) ==
  {<<>>} \cup {<<[speaker |-> sp, offset |-> 0]>> :
                 sp \in {<<"Sarah", ".">>, <<"Marcus">>}}

\* a text longer than the window of inferGender: the pronouns are more than
\* 100 characters after the name
FarPronounText ==
  <<"Sarah", "walked", "walked", "walked", "walked", "walked", "walked",
    "walked", "walked", "walked", "walked", "walked", "walked", "walked",
    "walked", "walked", "walked", "herself", ".", "She", "was", ".">>

\* a text that gives a name as its own alias
OwnNameText == <<"Marcus", ",", "called", "Marcus", ".">>

\* the inputs of extractEntities
AllInputs ==
  UNION {{[text |-> t, paragraphs |-> p, dialogues |-> d, chapterId |-> "c1"] :
            p \in ParagraphsOf(t), d \in DialoguesOf(t)} :
         t \in TextsUpTo(Sentences, MaxSentences)
                  \cup {FarPronounText, OwnNameText}}

\* the chapters extracted before a merge
KillLoveText ==
  <<"Marcus", "killed", "Sarah", ".", "Sarah", "loved", "Marcus", ".">>

RedText ==
  <<"Marcus", "killed", "Sarah", ".", "Sarah", "was", "in", "Red", ".",
    "Sarah", "was", "in", "Red", ".", "He", "helped", "Sarah", ".">>

OldManText == <<"The", "old", "man", "was", ".">>

\* the first comes as one paragraph, with a dialogue line whose speaker is
\* written with a full stop; the second comes as one paragraph per sentence
ChapterInputs ==
  {[text |-> KillLoveText,
    paragraphs |-> <<Paragraph(KillLoveText, 1, Len(KillLoveText))>>,
    dialogues |-> <<[speaker |-> <<"Sarah", ".">>, offset |-> 0]>>,
    chapterId |-> "c1"],
   [text |-> RedText, paragraphs |-> SentenceParagraphs(RedText, 1),
    dialogues |-> <<>>, chapterId |-> "c1"],
   [text |-> OldManText,
    paragraphs |-> <<Paragraph(OldManText, 1, Len(OldManText))>>,
    dialogues |-> <<>>, chapterId |-> "c1"]}

\* A graph the caller built or loaded instead of extracting it.  The two
\* name the same character in different case and share their node ids, as
\* two parts of one stored graph do; the type of the edge and the length of
\* its evidence vary.
SeedEvidence(slot, n) == [i \in 1..n |-> [at |-> 100 * slot + i, len |-> 1, lower |-> FALSE]]

SeedGraph(slot, type, n, base) ==
  [nodes |->
     <<[id |-> 1, name |-> IF slot = 1 THEN <<"Sarah">> ELSE <<"sarah">>,
        type |-> "character",
        aliases |-> IF slot = 1 THEN <<<<"Red">>>> ELSE <<<<"The", "Red">>, <<"Red">>>>,
        firstMention |-> IF slot = 1 THEN 5 ELSE 3,
        mentionCount |-> IF slot = 1 THEN 2 ELSE 1,
        mentions |-> base + 1],
       [id |-> 2, name |-> <<"Marcus">>, type |-> "character", aliases |-> <<>>,
        firstMention |-> 7, mentionCount |-> 1, mentions |-> base + 2]>>,
   edges |->
     <<[id |-> 3, source |-> IF slot = 1 THEN 1 ELSE 2,
        target |-> IF slot = 1 THEN 2 ELSE 1, type |-> type,
        coOccurrences |-> slot, sentiment |-> 0,
        chapters |-> <<IF slot = 1 THEN "c1" ELSE "c2">>,
        evidence |-> SeedEvidence(slot, n)]>>]

\* the mentions arrays of a seed graph
SeedArrays(slot) ==
  <<IF slot = 1
      THEN <<[offset |-> 5, chapterId |-> "c1"], [offset |-> 9, chapterId |-> "c1"]>>
      ELSE <<[offset |-> 3, chapterId |-> "c2"]>>,
    <<[offset |-> 7, chapterId |-> IF slot = 1 THEN "c1" ELSE "c2"]>>>>

SeedTypes == {"interacts", "opposes"}

SeedLengths == {1, MaxEvidence}

-----------------------------------------------------------------------------
(* State *)

NoEx == [text |-> <<>>, paragraphs |-> <<>>, dialogues |-> <<>>, chapterId |-> "",
         gen |-> "up", nodes |-> <<>>, edges |-> <<>>, k |-> 1]

NoMg == [list |-> <<>>, k |-> 0, nodeMap |-> <<>>, edgeMap |-> <<>>, inputs |-> <<>>]

\* a node with its mentions array read from the heap
NodeValue(node, heap) == [node EXCEPT !.mentions = heap[node.mentions]]

\* a graph as a value: every node with the content of its mentions array
GraphValue(g, heap) ==
  [nodes |-> [i \in 1..Len(g.nodes) |-> NodeValue(g.nodes[i], heap)],
   edges |-> g.edges]

\* no call of detectContradictions yet
NoCd == [phase |-> "none", text |-> <<>>, nodes |-> <<>>, timeline |-> <<>>,
         attribute |-> <<>>, deaths |-> <<>>, timelineFound |-> <<>>,
         result |-> <<>>]

\* the hooks before their first render and the editor before any edit
NoEc == [inlineComments |-> <<>>, critiqueIntensity |-> "standard",
         visibleComments |-> <<>>, op |-> "none", arg |-> ""]

\* requests one behaviour sends through sendMessage
MaxRequests == 2

\* no message sent yet: the session is ready, nothing is processed
NoAg == [messages |-> <<>>, isProcessing |-> FALSE, status |-> "idle",
         current |-> 0, aborted |-> {}, executed |-> <<>>,
         req |-> [r \in 1..MaxRequests |-> [pc |-> "unsent", calls |-> <<>>, rounds |-> 0]]]

\* the document before any edit: the text in the editor, the history of
\* commits, the text of the render whose actions the running request holds,
\* the edits submitted and the edit editMutexRef waits for (0: none)
NoEd == [text |-> <<"a">>, history |-> <<>>, closure |-> <<"a">>,
         queue |-> <<>>, mutex |-> 0]

\* the other parts of the program before anything has run
OthersIdle ==
  /\ cd = NoCd
  /\ ec = NoEc
  /\ ag = NoAg
  /\ ed = NoEd

\* before the first call: the caller holds no graph
Init ==
  /\ OthersIdle
  /\ graphs = <<>>
  /\ arrays = <<>>
  /\ nextId = 1
  /\ chapters = 0
  /\ pc = "idle"
  /\ ex = NoEx
  /\ mg = NoMg
  /\ outcome = "none"

\* before the first call: the caller holds two graphs it did not extract
InitSeeded ==
  /\ OthersIdle
  /\ \E t \in SeedTypes, n \in SeedLengths :
       graphs = <<SeedGraph(1, t, n, 0), SeedGraph(2, "allied_with", 1, 2)>>
  /\ arrays = SeedArrays(1) \o SeedArrays(2)
  /\ nextId = 4
  /\ chapters = 0
  /\ pc = "idle"
  /\ ex = NoEx
  /\ mg = NoMg
  /\ outcome = "none"

-----------------------------------------------------------------------------
(* extractEntities *)

\* an order of the steps with relationship inference before pronoun resolution
RelationshipsFirst(p, e) ==
  IF p = "aliases" /\ e.paragraphs # <<>> THEN "paragraphs"
  ELSE IF p \in {"aliases", "paragraphs"} /\ PronounMatches(e.text, 1) # <<>>
    THEN "pronouns"
  ELSE "return"

\* the phase that follows phase p: a loop without iterations is skipped
PhaseAfter(p, e) ==
  IF p = "aliases" /\ PronounMatches(e.text, 1) # <<>> THEN "pronouns"
  ELSE IF p \in {"aliases", "pronouns"} /\ e.paragraphs # <<>> THEN "paragraphs"
  ELSE IF p \in {"aliases", "pronouns", "paragraphs"}
            /\ RelationshipMatches(e.text, 1) # <<>> THEN "patterns"
  ELSE "return"

\* the call, the scan and consolidateEntities
ExtractStart(inputs, gens) ==
  /\ pc = "idle"
  /\ Len(graphs) < MaxGraphs
  /\ \E in \in inputs, gen \in gens :
       ex' = [text |-> in.text, paragraphs |-> in.paragraphs,
              dialogues |-> in.dialogues, chapterId |-> in.chapterId,
              gen |-> gen,
              nodes |-> consolidateEntities(AllRaw(in.text, in.dialogues),
                                            in.chapterId, nextId, gen),
              edges |-> <<>>, k |-> 1]
  /\ pc' = "aliases"
  /\ mg' = NoMg
  /\ outcome' = "running"
  /\ UNCHANGED <<graphs, arrays, nextId, chapters>>
  /\ UNCHANGED otherVars

\* detectAliases returns
DetectAliases ==
  /\ pc = "aliases"
  /\ ~detectAliasesRaises(ex.text)
  /\ ex' = [ex EXCEPT !.nodes = detectAliases(ex.text, ex.nodes)]
  /\ pc' = PhaseAfter("aliases", ex)
  /\ UNCHANGED <<graphs, arrays, nextId, chapters, mg, outcome>>
  /\ UNCHANGED otherVars

\* detectAliases raises, and extractEntities with it: nothing is returned
DetectAliasesRaise ==
  /\ pc = "aliases"
  /\ detectAliasesRaises(ex.text)
  /\ pc' = "idle"
  /\ outcome' = "raised"
  /\ UNCHANGED <<graphs, arrays, nextId, chapters, ex, mg>>
  /\ UNCHANGED otherVars

\* the loop counter after iteration k of n
NextK(k, n) == IF k < n THEN k + 1 ELSE 1

\* one iteration of the pronoun loop of resolvePronounsInText
ResolvePronoun ==
  /\ pc = "pronouns"
  /\ ex' = [ex EXCEPT
              !.nodes = ResolveOne(ex.text, ex.nodes, ex.chapterId,
                                   PronounMatches(ex.text, 1)[ex.k]),
              !.k = NextK(@, Len(PronounMatches(ex.text, 1)))]
  /\ pc' = IF ex'.k > 1 THEN pc ELSE PhaseAfter("pronouns", ex)
  /\ UNCHANGED <<graphs, arrays, nextId, chapters, mg, outcome>>
  /\ UNCHANGED otherVars

\* one iteration of the paragraph loop of detectRelationships; the edge ids
\* follow the node ids
CoOccurrence ==
  /\ pc = "paragraphs"
  /\ ex' = [ex EXCEPT
              !.edges = CoOccurrenceStep(ex.text, ex.nodes, ex.paragraphs[ex.k],
                                         ex.chapterId, ex.edges,
                                         nextId + Len(ex.nodes), ex.gen),
              !.k = NextK(@, Len(ex.paragraphs))]
  /\ pc' = IF ex'.k > 1 THEN pc ELSE PhaseAfter("paragraphs", ex)
  /\ UNCHANGED <<graphs, arrays, nextId, chapters, mg, outcome>>
  /\ UNCHANGED otherVars

\* one iteration of the match loops of detectRelationships
ExplicitPattern ==
  /\ pc = "patterns"
  /\ ex' = [ex EXCEPT
              !.edges = ExplicitStep(ex.nodes, ex.edges,
                                     RelationshipMatches(ex.text, 1)[ex.k],
                                     ex.chapterId,
                                     generateId(ex.gen, nextId + Len(ex.nodes)
                                                          + Len(ex.edges))),
              !.k = NextK(@, Len(RelationshipMatches(ex.text, 1)))]
  /\ pc' = IF ex'.k > 1 THEN pc ELSE "return"
  /\ UNCHANGED <<graphs, arrays, nextId, chapters, mg, outcome>>
  /\ UNCHANGED otherVars

\* extractEntities returns the graph: the caller holds it from now on
ExtractReturn ==
  /\ pc = "return"
  /\ LET n == Len(ex.nodes)
         base == Len(arrays)
     IN /\ arrays' = arrays \o [i \in 1..n |-> ex.nodes[i].mentions]
        /\ graphs' = Append(graphs,
                        [nodes |-> [i \in 1..n |-> [ex.nodes[i] EXCEPT !.mentions = base + i]],
                         edges |-> ex.edges])
        /\ nextId' = nextId + n + Len(ex.edges)
  /\ chapters' = chapters + 1
  /\ pc' = "idle"
  /\ outcome' = "extracted"
  /\ UNCHANGED <<ex, mg>>
  /\ UNCHANGED otherVars

-----------------------------------------------------------------------------
(* mergeEntityGraphs *)

\* the lists of at most n graphs the caller holds
RECURSIVE ListsUpTo(_, _)
ListsUpTo(held, n) ==
  IF n = 0 THEN {<<>>}
  ELSE LET shorter == ListsUpTo(held, n - 1)
       IN shorter \cup {Append(l, g) : l \in shorter, g \in held}

\* the call: the two maps are empty
MergeStart ==
  /\ pc = "idle"
  /\ Len(graphs) < MaxGraphs
  /\ \E list \in ListsUpTo(1..Len(graphs), MaxMergeLen) :
       mg' = [list |-> list, k |-> 1, nodeMap |-> <<>>, edgeMap |-> <<>>,
              inputs |-> [i \in 1..Len(list) |-> GraphValue(graphs[list[i]], arrays)]]
  /\ pc' = "merging"
  /\ ex' = NoEx
  /\ outcome' = "running"
  /\ UNCHANGED <<graphs, arrays, nextId, chapters>>
  /\ UNCHANGED otherVars

\* one iteration of the loop over the graphs: its nodes, then its edges
MergeGraph ==
  /\ pc = "merging"
  /\ mg.k <= Len(mg.list)
  /\ arrays' = MergeNodes(graphs[mg.list[mg.k]].nodes, 1, mg.nodeMap, arrays).heap
  /\ mg' = [mg EXCEPT
              !.k = @ + 1,
              !.nodeMap = MergeNodes(graphs[mg.list[mg.k]].nodes, 1, @, arrays).nodeMap,
              !.edgeMap = MergeEdges(graphs[mg.list[mg.k]].edges, 1, @)]
  /\ UNCHANGED <<graphs, nextId, chapters, pc, ex, outcome>>
  /\ UNCHANGED otherVars

\* the two sorts and the return: the caller holds the merged graph too
MergeReturn ==
  /\ pc = "merging"
  /\ mg.k > Len(mg.list)
  /\ graphs' = Append(graphs,
                  [nodes |-> SortDesc(mg.nodeMap, "mentionCount"),
                   edges |-> SortDesc(mg.edgeMap, "coOccurrences")])
  /\ pc' = "idle"
  /\ outcome' = "merged"
  /\ UNCHANGED <<arrays, nextId, chapters, ex, mg>>
  /\ UNCHANGED otherVars

-----------------------------------------------------------------------------
(* Specifications *)

\* a chapter is extracted
Extract ==
  /\ chapters < MaxChapters
  /\ ExtractStart(ChapterInputs, {"up"})

\* the first text is extracted, with any paragraphs and dialogue lines
ExtractAny ==
  /\ outcome = "none"
  /\ ExtractStart(AllInputs, Generators)

Next ==
  \/ Extract
  \/ DetectAliases
  \/ DetectAliasesRaise
  \/ ResolvePronoun
  \/ CoOccurrence
  \/ ExplicitPattern
  \/ ExtractReturn
  \/ MergeStart
  \/ MergeGraph
  \/ MergeReturn

\* chapters are extracted and graphs, extracted or loaded, are merged
Spec == (Init \/ InitSeeded) /\ [][Next]_vars

NextExtract ==
  \/ ExtractAny
  \/ DetectAliases
  \/ DetectAliasesRaise
  \/ ResolvePronoun
  \/ CoOccurrence
  \/ ExplicitPattern
  \/ ExtractReturn

\* texts are extracted
SpecExtract == Init /\ [][NextExtract]_vars

-----------------------------------------------------------------------------
(* Properties *)

\* the graph the last call returned
Returned == graphs[Len(graphs)]

\* a call has returned a graph
HasReturned == outcome \in {"extracted", "merged"}

\* the ids of the nodes of a graph
NodeIds(g) == {g.nodes[i].id : i \in 1..Len(g.nodes)}

\* mentionCount is the length of mentions, for every node of a graph
CountsMatch(g) ==
  \A i \in 1..Len(g.nodes) :
     g.nodes[i].mentionCount = Len(arrays[g.nodes[i].mentions])

\* C1: for every node of a graph returned by extractEntities or by
\* mergeEntityGraphs, mentionCount equals the length of mentions, also when
\* the merged graphs were passed to an earlier merge.
C1_MentionCountIsLength == HasReturned => CountsMatch(Returned)

\* both ends of every edge of a graph are nodes of the graph
EdgesClosed(g) ==
  \A j \in 1..Len(g.edges) :
     g.edges[j].source \in NodeIds(g) /\ g.edges[j].target \in NodeIds(g)

\* C2: source and target of every edge of a returned graph are ids of nodes
\* of the same graph, also when the graphs merged were extracted separately
\* and name the same entity.
C2_EdgeEndsAreNodes == HasReturned => EdgesClosed(Returned)

\* the canonical form of a name: trimmed, punctuation stripped, case folded
CanonicalName(name) == LowerName(normalizeEntityName(name))

\* no two nodes of a graph have the same canonical name
NamesDistinct(g) ==
  \A i \in 1..Len(g.nodes), j \in 1..Len(g.nodes) :
     i # j => CanonicalName(g.nodes[i].name) # CanonicalName(g.nodes[j].name)

\* C3: no two nodes of a returned graph have names that are equal after
\* trimming, stripping punctuation and folding case, dialogue speakers
\* included.
C3_OneNodePerCanonicalName == HasReturned => NamesDistinct(Returned)

\* every edge of a graph joins two different nodes
NoSelfEdge(g) == \A j \in 1..Len(g.edges) : g.edges[j].source # g.edges[j].target

\* C4: every edge extractEntities returns joins two different nodes, whether
\* a shared paragraph or a relationship pattern made it.
C4_NoSelfEdgeExtracted == outcome = "extracted" => NoSelfEdge(Returned)

\* C5: extractEntities never raises, also on a text an alias pattern matches.
C5_ExtractNeverRaises == outcome # "raised"

\* every graph of the list is, as a value, what it was when the call began
InputsUnchanged ==
  \A k \in 1..Len(mg.list) : GraphValue(graphs[mg.list[k]], arrays) = mg.inputs[k]

\* C6: mergeEntityGraphs leaves every graph of its list unchanged: the
\* mentions, mentionCount, aliases and firstMention of every node and the
\* coOccurrences, chapters, evidence and type of every edge.
C6_MergeLeavesInputsUnchanged == outcome = "merged" => InputsUnchanged

\* the nodes named key, case folded, of the graphs of a list, in its order
RECURSIVE NodesNamed(_, _)
NodesNamed(inputs, key) ==
  IF inputs = <<>> THEN <<>>
  ELSE SelectSeq(Head(inputs).nodes, LAMBDA n : LowerName(n.name) = key)
         \o NodesNamed(Tail(inputs), key)

RECURSIVE SumCounts(_)
SumCounts(ns) == IF ns = <<>> THEN 0 ELSE Head(ns).mentionCount + SumCounts(Tail(ns))

RECURSIVE ConcatMentions(_)
ConcatMentions(ns) == IF ns = <<>> THEN <<>> ELSE Head(ns).mentions \o ConcatMentions(Tail(ns))

AliasUnion(ns) == UNION {Elems(ns[i].aliases) : i \in 1..Len(ns)}

EarliestFirst(ns) ==
  CHOOSE m \in {ns[i].firstMention : i \in 1..Len(ns)} :
    \A i \in 1..Len(ns) : m <= ns[i].firstMention

\* a merged node is the sum, concatenation, union and minimum of nodes ns
MergedFrom(node, ns) ==
  /\ node.mentionCount = SumCounts(ns)
  /\ node.mentions = ConcatMentions(ns)
  /\ Elems(node.aliases) = AliasUnion(ns)
  /\ node.firstMention = EarliestFirst(ns)

\* C7: for every node of a merged graph, over the nodes of the list with the
\* same name (case folded): mentionCount is their sum, mentions their
\* concatenation in the order of the list, aliases their union and
\* firstMention their minimum.
C7_MergedNodeCombinesInputs ==
  outcome = "merged" =>
    \A i \in 1..Len(Returned.nodes) :
       MergedFrom(NodeValue(Returned.nodes[i], arrays),
                  NodesNamed(mg.inputs, LowerName(Returned.nodes[i].name)))

\* the list without its element at position i
Without(list, i) == SubSeq(list, 1, i - 1) \o SubSeq(list, i + 1, Len(list))

\* the rearrangements of a list
RECURSIVE Rearrangements(_)
Rearrangements(list) ==
  IF list = <<>> THEN {<<>>}
  ELSE UNION {{<<list[i]>> \o rest : rest \in Rearrangements(Without(list, i))} :
               i \in 1..Len(list)}

\* mentionCount by node name and coOccurrences by edge pair of a graph
CountsByName(g) ==
  {<<LowerName(g.nodes[i].name), g.nodes[i].mentionCount>> : i \in 1..Len(g.nodes)}

CoOccurrencesByPair(g) ==
  {<<EdgeKey(g.edges[j].source, g.edges[j].target), g.edges[j].coOccurrences>> :
     j \in 1..Len(g.edges)}

\* C8: every rearrangement of the list gives the same mentionCount for each
\* merged node name and the same coOccurrences for each merged edge pair.
\* (The counts of the graphs of the list are not touched by a merge, so the
\* merge of a rearranged list is computed on the graphs as they are held.)
SameCounts(g, h) ==
  /\ CountsByName(g) = CountsByName(h)
  /\ CoOccurrencesByPair(g) = CoOccurrencesByPair(h)

C8_CountsIgnoreListOrder ==
  outcome = "merged" =>
    \A list \in Rearrangements(mg.list) :
       SameCounts(MergeAll(graphs, list, 1, <<>>, <<>>, arrays), Returned)

\* a merge of two different graphs added the counts of a node they share
W8_TwoGraphsAdded ==
  /\ outcome = "merged"
  /\ Len(mg.list) = 2
  /\ mg.list[1] # mg.list[2]
  /\ \E i \in 1..Len(Returned.nodes) :
       /\ Len(NodesNamed(mg.inputs, LowerName(Returned.nodes[i].name))) = 2
       /\ NodesNamed(mg.inputs, LowerName(Returned.nodes[i].name))[1].mentionCount
            # NodesNamed(mg.inputs, LowerName(Returned.nodes[i].name))[2].mentionCount
  /\ \E j \in 1..Len(Returned.edges) :
       Returned.edges[j].coOccurrences = 3

\* C9: after any merge every returned edge has at most ten evidence entries,
\* whether or not it was combined with another edge.
C9_EvidenceBounded ==
  outcome = "merged" =>
    \A j \in 1..Len(Returned.edges) : Len(Returned.edges[j].evidence) <= EvidenceCap

\* the only change of type is from interacts to a specific type
TypeStep(old, new) == old # new => old = "interacts"

\* the edges of a map keep their type, or leave interacts, in the next map
TypesKept(before, after) ==
  \A i \in 1..Len(before) :
     (i <= Len(after) /\ after[i].id = before[i].id)
       => TypeStep(before[i].type, after[i].type)

\* C10: the type of an edge changes only from interacts to a specific type;
\* no later pattern match of extractEntities and no later graph of
\* mergeEntityGraphs changes a specific type.
C10_TypeOnlyUpgrades ==
  [][TypesKept(ex.edges, ex'.edges) /\ TypesKept(mg.edgeMap, mg'.edgeMap)]_vars

\* a merge kept the specific type of the first graph although the second
\* graph gives the pair another specific type
W10_SpecificTypeKept ==
  /\ outcome = "merged"
  /\ mg.list = <<1, 2>>
  /\ Len(mg.inputs[1].edges) = 1
  /\ Len(mg.inputs[2].edges) = 1
  /\ mg.inputs[1].edges[1].type = "opposes"
  /\ mg.inputs[2].edges[1].type = "allied_with"
  /\ Len(Returned.edges) = 1
  /\ Returned.edges[1].type = "opposes"

\* a sequence of records is in non-increasing order of a field
NonIncreasing(s, field) ==
  \A i \in 1..Len(s), j \in 1..Len(s) : i < j => s[i][field] >= s[j][field]

\* the merge of no graph is the empty graph
MergeOfNone ==
  Len(mg.list) = 0 => Returned = [nodes |-> <<>>, edges |-> <<>>]

\* C11 (as stated): mergeEntityGraphs of the empty list returns no nodes and
\* no edges, and mergeEntityGraphs([g]) returns exactly the nodes and edges
\* of g, field for field and in the same order.
C11_MergeOfOneIsIdentity ==
  outcome = "merged" =>
    /\ MergeOfNone
    /\ Len(mg.list) = 1 => GraphValue(Returned, arrays) = mg.inputs[1]

\* C11 (amended): mergeEntityGraphs of the empty list returns no nodes and
\* no edges, and mergeEntityGraphs([g]) returns the nodes and edges of g,
\* field for field, the nodes in non-increasing order of mentionCount and
\* the edges in non-increasing order of coOccurrences.
C11_MergeOfOneKeepsFields ==
  outcome = "merged" =>
    /\ MergeOfNone
    /\ Len(mg.list) = 1 =>
         /\ Len(Returned.nodes) = Len(mg.inputs[1].nodes)
         /\ Elems(GraphValue(Returned, arrays).nodes) = Elems(mg.inputs[1].nodes)
         /\ Len(Returned.edges) = Len(mg.inputs[1].edges)
         /\ Elems(Returned.edges) = Elems(mg.inputs[1].edges)
         /\ NonIncreasing(Returned.nodes, "mentionCount")
         /\ NonIncreasing(Returned.edges, "coOccurrences")

\* a graph whose edges are not in order of coOccurrences was merged alone
W11_OneGraphReordered ==
  /\ outcome = "merged"
  /\ Len(mg.list) = 1
  /\ Len(Returned.edges) = 2
  /\ Returned.edges # mg.inputs[1].edges
  /\ Len(Returned.nodes) = 3


\* the loop of resolvePronounsInText from match k on
RECURSIVE ResolveFrom(_, _, _, _, _)
ResolveFrom(text, nodes, chapterId, matches, k) ==
  IF k > Len(matches) THEN nodes
  ELSE ResolveFrom(text, ResolveOne(text, nodes, chapterId, matches[k]),
                   chapterId, matches, k + 1)

\* the paragraph loop of detectRelationships from paragraph k on
RECURSIVE CoOccurrenceFrom(_, _, _, _, _, _, _, _)
CoOccurrenceFrom(text, nodes, paragraphs, chapterId, edges, id, gen, k) ==
  IF k > Len(paragraphs) THEN edges
  ELSE CoOccurrenceFrom(text, nodes, paragraphs, chapterId,
                        CoOccurrenceStep(text, nodes, paragraphs[k], chapterId,
                                         edges, id, gen),
                        id, gen, k + 1)

\* the match loops of detectRelationships from match k on
RECURSIVE ExplicitFrom(_, _, _, _, _, _, _)
ExplicitFrom(nodes, edges, matches, chapterId, id, gen, k) ==
  IF k > Len(matches) THEN edges
  ELSE ExplicitFrom(nodes,
                    ExplicitStep(nodes, edges, matches[k], chapterId,
                                 generateId(gen, id + Len(edges))),
                    matches, chapterId, id, gen, k + 1)

\* detectRelationships over the resolved nodes
detectRelationships(text, nodes, paragraphs, chapterId, id, gen) ==
  ExplicitFrom(nodes,
               CoOccurrenceFrom(text, nodes, paragraphs, chapterId, <<>>,
                                id + Len(nodes), gen, 1),
               RelationshipMatches(text, 1), chapterId, id + Len(nodes), gen, 1)

\* the graph built from the nodes once the pronouns are resolved
GraphOf(text, nodes, paragraphs, chapterId, id, gen) ==
  [nodes |-> nodes,
   edges |-> detectRelationships(text, nodes, paragraphs, chapterId, id, gen)]

\* extractEntities as a function of its inputs and of the identifiers the
\* generator returns (for a text on which detectAliases does not raise)
extractEntities(in, id, gen) ==
  GraphOf(in.text,
          ResolveFrom(in.text,
                      detectAliases(in.text,
                                    consolidateEntities(AllRaw(in.text, in.dialogues),
                                                        in.chapterId, id, gen)),
                      in.chapterId, PronounMatches(in.text, 1), 1),
          in.paragraphs, in.chapterId, id, gen)

\* a graph with every id replaced by the position of what it names: two
\* graphs are equal up to a renaming of ids when these are equal
Positional(g) ==
  [nodes |-> [i \in 1..Len(g.nodes) |-> [g.nodes[i] EXCEPT !.id = i]],
   edges |-> [j \in 1..Len(g.edges) |->
                [g.edges[j] EXCEPT !.id = j,
                                   !.source = FindId(g.nodes, @),
                                   !.target = FindId(g.nodes, @)]]]

\* the inputs of the running or last call of extractEntities
ExInputs == [text |-> ex.text, paragraphs |-> ex.paragraphs,
             dialogues |-> ex.dialogues, chapterId |-> ex.chapterId]

\* the generator that hands out the identifiers in the other order
OtherGenerator(gen) == IF gen = "up" THEN "down" ELSE "up"

\* C12: a call of extractEntities returns the same nodes and edges, up to a
\* renaming of ids, as a call with the same inputs whose identifiers come in
\* the opposite order (the identifiers of a call are distinct): same node
\* order, same edge order, same grouping of mentions, same pronoun mentions.
C12_SameGraphUnderOtherIds ==
  outcome = "extracted" =>
     Positional(GraphValue(Returned, arrays))
       = Positional(extractEntities(ExInputs, 1, OtherGenerator(ex.gen)))

\* a call with descending identifiers returned two edges, one of them from
\* the node with the larger id to the node with the smaller id
W12_DescendingIdsTwoEdges ==
  /\ outcome = "extracted"
  /\ ex.gen = "down"
  /\ Len(Returned.edges) >= 2
  /\ \E j \in 1..Len(Returned.edges) :
        Returned.edges[j].source > Returned.edges[j].target
  /\ \E i \in 1..Len(Returned.nodes) : Returned.nodes[i].mentionCount > 1

\* the place of a step of extractEntities in the order of lines 582-593
StepRank(p) ==
  IF p = "aliases" THEN 1
  ELSE IF p = "pronouns" THEN 2
  ELSE IF p \in {"paragraphs", "patterns"} THEN 3
  ELSE 4

ExtractSteps == {"aliases", "pronouns", "paragraphs", "patterns", "return"}

\* one step of a call keeps the order: no step follows a later one, the
\* nodes are consolidated before anything else runs, no edge exists while
\* aliases or pronouns are resolved, and no node changes once relationship
\* inference has started
StepsInOrder ==
  /\ pc \in ExtractSteps /\ pc' \in ExtractSteps => StepRank(pc) <= StepRank(pc')
  /\ pc' \in ExtractSteps => pc \in ExtractSteps \/ pc' = "aliases"
  /\ pc' = "pronouns" => pc \in {"aliases", "pronouns"}
  /\ pc' \in {"aliases", "pronouns"} => ex'.edges = <<>>
  /\ pc \in {"paragraphs", "patterns", "return"} => ex'.nodes = ex.nodes

\* C13: the steps of extractEntities run in the order consolidation, alias
\* resolution, pronoun resolution, relationship inference: pronoun resolution
\* starts only after consolidation and is finished before the first edge is
\* inferred.
C13_StepsRunInOrder == [][StepsInOrder]_vars

\* a call resolved a pronoun to a node and then inferred an edge
W13_PronounThenEdge ==
  /\ outcome = "extracted"
  /\ PronounMatches(ex.text, 1) # <<>>
  /\ \E i \in 1..Len(ex.nodes) :
        \E m \in 1..Len(ex.nodes[i].mentions) :
           \E q \in 1..Len(PronounMatches(ex.text, 1)) :
              ex.nodes[i].mentions[m].offset = PronounMatches(ex.text, 1)[q].offset
  /\ ex.edges # <<>>

\* the paragraph covers the offset
Covers(para, offset) ==
  para.offset <= offset /\ offset < para.offset + para.length

\* node number i carries the mention resolvePronounsInText pushed for the
\* pronoun match pm
ResolvedTo(nodes, i, pm, chapterId) ==
  \E m \in 1..Len(nodes[i].mentions) :
     nodes[i].mentions[m] = [offset |-> pm.offset, chapterId |-> chapterId]

\* the edges hold one between the two ids
Linked(edges, a, b) == FindEdge(edges, EdgeKey(a, b)) > 0

\* C14: when a pronoun inside paragraph P was resolved to node N and the
\* name of another node M occurs in P, the returned graph has an edge
\* between N and M.
C14_PronounLinksParagraph ==
  outcome = "extracted" =>
     \A q \in 1..Len(PronounMatches(ex.text, 1)), k \in 1..Len(ex.paragraphs) :
        \A n \in 1..Len(ex.nodes), m \in 1..Len(ex.nodes) :
           ( /\ Covers(ex.paragraphs[k], PronounMatches(ex.text, 1)[q].offset)
             /\ ResolvedTo(ex.nodes, n, PronounMatches(ex.text, 1)[q], ex.chapterId)
             /\ m # n
             /\ ex.nodes[m] \in Elems(PresentEntities(ex.text, ex.nodes,
                                                      ex.paragraphs[k])) )
           => Linked(ex.edges, ex.nodes[n].id, ex.nodes[m].id)

\* the mentions of the candidates that precede the offset, as distances
PrecedingDistances(cands, offset) ==
  {d \in 1..offset :
     \E c \in 1..Len(cands) :
        \E m \in 1..Len(cands[c].mentions) : cands[c].mentions[m].offset = offset - d}

\* the co-reference names a candidate with a preceding mention, and no
\* candidate has a closer one
ClosestAntecedent(coRef, cands) ==
  coRef.found =>
     /\ \E c \in 1..Len(cands) :
           /\ cands[c].id = coRef.resolvedTo
           /\ PrecedingDistances(<<cands[c]>>, coRef.offset) # {}
           /\ \A d \in PrecedingDistances(cands, coRef.offset) :
                 \E own \in PrecedingDistances(<<cands[c]>>, coRef.offset) : own <= d

\* the pronoun match the next iteration of resolvePronounsInText handles
ThisPronoun == PronounMatches(ex.text, 1)[ex.k]

\* C15: every CoReference resolvePronoun returns names a node with a mention
\* at an offset strictly smaller than the pronoun's, and no candidate kept by
\* the gender filter has a closer preceding mention: also for a pronoun that
\* occurs before every mention of every candidate.
C15_ResolvedToClosestPreceding ==
  pc = "pronouns" =>
     ClosestAntecedent(resolvePronoun(ThisPronoun.pronoun, ThisPronoun.offset,
                                      ex.nodes, ex.text),
                       Candidates(ThisPronoun.pronoun, Characters(ex.nodes), ex.text))

\* the nodes at the start of the pronoun-resolution pass of the call
PassStart ==
  detectAliases(ex.text,
                consolidateEntities(AllRaw(ex.text, ex.dialogues), ex.chapterId,
                                    nextId, ex.gen))

\* C16: within one pronoun-resolution pass the gender of a candidate is the
\* same for every pronoun: it is the gender inferred at the start of the
\* pass, whatever mentions earlier accepted resolutions have appended.
C16_GenderFixedForThePass ==
  pc = "pronouns" =>
     \A i \in 1..Len(ex.nodes) :
        ex.nodes[i].type = "character" =>
           inferGender(ex.nodes[i], ex.text) = inferGender(PassStart[i], ex.text)

\* firstMention is no larger than the offset of any mention of the node
FirstIsMinimum(node) ==
  \A m \in 1..Len(node.mentions) : node.firstMention <= node.mentions[m].offset

\* C17: after consolidation the firstMention of every node is the minimum
\* offset over the mentions the scan produced for it, whichever rule or
\* dialogue line produced them and in whatever order the rules ran.
C17_FirstMentionIsMinimum ==
  pc = "aliases" => \A i \in 1..Len(ex.nodes) : FirstIsMinimum(ex.nodes[i])

\* the aliases of the node hold neither its name nor an alias twice
AliasesClean(node) ==
  /\ ~IncludesElem(node.aliases, node.name)
  /\ \A i \in 1..Len(node.aliases), j \in 1..Len(node.aliases) :
        node.aliases[i] = node.aliases[j] => i = j

\* C18: in a graph returned by extractEntities or by mergeEntityGraphs the
\* aliases of a node never contain the node's own name and never the same
\* alias twice.
C18_AliasesExcludeName ==
  HasReturned => \A i \in 1..Len(Returned.nodes) : AliasesClean(Returned.nodes[i])

\* the edge was only ever touched by the co-occurrence rule: every evidence
\* entry is a paragraph snippet
CoOccurrenceOnly(edge) ==
  \A i \in 1..Len(edge.evidence) : edge.evidence[i].lower

\* C19: the co-occurrence rule treats a paragraph the same way whether it
\* creates the edge or updates it, so an edge known only from co-occurrence
\* has one evidence entry per counted paragraph.
C19_EvidencePerCountedParagraph ==
  outcome = "extracted" =>
     \A j \in 1..Len(Returned.edges) :
        CoOccurrenceOnly(Returned.edges[j]) =>
           Len(Returned.edges[j].evidence) = Returned.edges[j].coOccurrences

\* the text is "X and Y walked together." for two names X and Y, with one
\* paragraph covering it and no dialogue line
WalkedTogether(in) ==
  /\ Len(in.text) = 6
  /\ in.text[1] \in CapWords /\ in.text[3] \in CapWords
  /\ in.text[1] # in.text[3]
  /\ SubSeq(in.text, 4, 6) = <<"walked", "together", ".">>
  /\ in.text[2] = "and"
  /\ in.paragraphs = <<Paragraph(in.text, 1, Len(in.text))>>
  /\ in.dialogues = <<>>

\* the graph has nodes with the two names and an edge of the type between them
NamedPairLinked(g, x, y, type) ==
  \E n \in 1..Len(g.nodes), m \in 1..Len(g.nodes) :
     /\ g.nodes[n].name = <<x>>
     /\ g.nodes[m].name = <<y>>
     /\ \E j \in 1..Len(g.edges) :
           /\ EdgeKey(g.edges[j].source, g.edges[j].target)
                = EdgeKey(g.nodes[n].id, g.nodes[m].id)
           /\ g.edges[j].type = type

\* C20: for the text "X and Y walked together." covered by one paragraph,
\* extractEntities returns nodes X and Y and an edge of type allied_with
\* between them.
C20_WalkedTogetherAllied ==
  (outcome = "extracted" /\ WalkedTogether(ExInputs)) =>
     NamedPairLinked(Returned, ex.text[1], ex.text[3], "allied_with")

-----------------------------------------------------------------------------
(* Contradiction detection: extractAttributes *)

\* characters kept on each side of a match as its context
ContextMargin == 20

\* text.slice(Math.max(0, index - 20), index + match[0].length + 20), as the
\* place of the slice in the text
MatchContext(text, i, j) ==
  [from |-> Max(0, TokOffset(text, i) - ContextMargin),
   to |-> Min(Len(Chars(text)),
              Len(Chars(SubSeq(text, 1, j))) + ContextMargin)]

\* the attribute pushed for a match over tokens i..j
Attribute(text, i, j, name, category, value) ==
  [entityName |-> name, category |-> category, value |-> Lower(value),
   offset |-> TokOffset(text, i), context |-> MatchContext(text, i, j)]

\* (\w+)'s?\s+(\w+)\s+eyes|eyes\s+(?:were|are)\s+(\w+) with the gi flags,
\* scanning from token i.  A match of the second alternative has no entity
\* name (match[1] and match[4] are undefined) and pushes nothing.
RECURSIVE EyeColours(_, _)
EyeColours(text, i) ==
  IF i > Len(text) THEN <<>>
  ELSE IF /\ i + 3 <= Len(text)
          /\ IsWord(text[i]) /\ text[i + 1] = "'s"
          /\ IsWord(text[i + 2]) /\ Lower(text[i + 3]) = "eyes"
    THEN <<Attribute(text, i, i + 3, text[i], "eye_color", text[i + 2])>>
           \o EyeColours(text, i + 4)
  ELSE IF /\ i + 2 <= Len(text)
          /\ Lower(text[i]) = "eyes" /\ Lower(text[i + 1]) \in {"were", "are"}
          /\ IsWord(text[i + 2])
    THEN EyeColours(text, i + 3)
  ELSE EyeColours(text, i + 1)

\* the tokens of the form \d+
Numerals == {"30", "32", "33"}

\* (\w+)\s+(?:was|is)\s+(\d+)\s+years?\s+old with the gi flags, scanning from
\* token i.  The lexicon has no "<n>-year-old" token, so the second
\* alternative matches nothing.
RECURSIVE Ages(_, _)
Ages(text, i) ==
  IF i > Len(text) THEN <<>>
  ELSE IF /\ i + 4 <= Len(text)
          /\ IsWord(text[i]) /\ Lower(text[i + 1]) \in {"was", "is"}
          /\ text[i + 2] \in Numerals
          /\ Lower(text[i + 3]) \in {"year", "years"} /\ Lower(text[i + 4]) = "old"
    THEN <<Attribute(text, i, i + 4, text[i], "age", text[i + 2])>>
           \o Ages(text, i + 5)
  ELSE Ages(text, i + 1)

\* extractAttributes: one scan per pattern, in the order of ATTRIBUTE_PATTERNS.
\* The lexicon has no hair, height or build word, so those three patterns
\* match nothing.
extractAttributes(text) == EyeColours(text, 1) \o Ages(text, 1)

-----------------------------------------------------------------------------
(* Contradiction detection: detectAttributeContradictions *)

\* the value of a decimal digit, -1 for any other character
DigitValue(c) ==
  CASE c = "0" -> 0 [] c = "1" -> 1 [] c = "2" -> 2 [] c = "3" -> 3
    [] c = "4" -> 4 [] c = "5" -> 5 [] c = "6" -> 6 [] c = "7" -> 7
    [] c = "8" -> 8 [] c = "9" -> 9 [] OTHER -> -1

\* parseInt on the characters from k on, with the value read so far; NaN
\* (here -1) when the first character is no digit
RECURSIVE ParseDigits(_, _, _)
ParseDigits(chars, k, sofar) ==
  IF k > Len(chars) \/ DigitValue(chars[k]) < 0
    THEN IF k = 1 THEN -1 ELSE sofar
    ELSE ParseDigits(chars, k + 1, 10 * sofar + DigitValue(chars[k]))

parseInt(value) == ParseDigits(SpellLower(value), 1, 0)

\* years two ages may differ by
AgeTolerance == 2

\* the colour buckets of areValuesCompatible: a base colour and its variations
colorVariations ==
  {{"blue", "light blue", "dark blue", "sky blue", "azure"},
   {"green", "light green", "dark green", "emerald", "jade"},
   {"brown", "dark brown", "light brown", "chestnut", "chocolate"},
   {"black", "jet black", "raven"},
   {"red", "auburn", "copper", "crimson"},
   {"blonde", "golden", "fair", "light"}}

\* a compatibility test without the tolerance for ages
ExactOrSameColour(category, val1, val2) ==
  \/ val1 = val2
  \/ \E bucket \in colorVariations : val1 \in bucket /\ val2 \in bucket

areValuesCompatible(category, val1, val2) ==
  IF val1 = val2 THEN TRUE
  ELSE IF category = "age" /\ parseInt(val1) >= 0 /\ parseInt(val2) >= 0
    THEN (IF parseInt(val1) >= parseInt(val2)
            THEN parseInt(val1) - parseInt(val2)
            ELSE parseInt(val2) - parseInt(val1)) <= AgeTolerance
  ELSE \E bucket \in colorVariations : val1 \in bucket /\ val2 \in bucket

\* attr.entityName.toLowerCase(), the key of the outer map
AttrKey(attr) == Lower(attr.entityName)

\* the keys of a map filled in the order of s: first occurrences
RECURSIVE KeysOf(_, _)
KeysOf(s, field) ==
  IF s = <<>> THEN <<>>
  ELSE PushNew(KeysOf(SubSeq(s, 1, Len(s) - 1), field),
               IF field = "key" THEN AttrKey(s[Len(s)]) ELSE s[Len(s)][field])

\* the attributes of one entity key, and of one category among them
OfEntity(attrs, key) ==
  FilterSeq(attrs, {a \in Elems(attrs) : AttrKey(a) = key})

OfCategory(attrs, category) ==
  FilterSeq(attrs, {a \in Elems(attrs) : a.category = category})

AttributeSeverity == 80

\* the contradiction pushed for an incompatible pair, with its severity in
\* hundredths and the contexts as their places in the text.  The random id
\* and the suggestion, a sentence made of the other fields, are left out.
AttributeContradiction(nodes, key, attr1, attr2) ==
  [type |-> "attribute",
   entityId |-> IF FindName(nodes, <<key>>) > 0
                  THEN <<nodes[FindName(nodes, <<key>>)].id>> ELSE <<>>,
   entityName |-> attr1.entityName,
   claim1 |-> [text |-> attr1.context, offset |-> attr1.offset, value |-> attr1.value],
   claim2 |-> [text |-> attr2.context, offset |-> attr2.offset, value |-> attr2.value],
   severity |-> AttributeSeverity]

\* the pair loops over the attributes of one entity and category, from the
\* pair (i, j) on
RECURSIVE ComparePairs(_, _, _, _, _)
ComparePairs(nodes, key, attrs, i, j) ==
  IF i > Len(attrs) THEN <<>>
  ELSE IF j > Len(attrs) THEN ComparePairs(nodes, key, attrs, i + 1, i + 2)
  ELSE (IF areValuesCompatible(attrs[i].category, attrs[i].value, attrs[j].value)
          THEN <<>>
          ELSE <<AttributeContradiction(nodes, key, attrs[i], attrs[j])>>)
         \o ComparePairs(nodes, key, attrs, i, j + 1)

\* the loop over the categories of one entity, from category k on
RECURSIVE CompareCategories(_, _, _, _, _)
CompareCategories(nodes, key, attrs, categories, k) ==
  IF k > Len(categories) THEN <<>>
  ELSE ComparePairs(nodes, key, OfCategory(attrs, categories[k]), 1, 2)
         \o CompareCategories(nodes, key, attrs, categories, k + 1)

\* the loop over the entities of the outer map, from key k on
RECURSIVE CompareEntities(_, _, _, _)
CompareEntities(nodes, attrs, keys, k) ==
  IF k > Len(keys) THEN <<>>
  ELSE CompareCategories(nodes, keys[k], OfEntity(attrs, keys[k]),
                         KeysOf(OfEntity(attrs, keys[k]), "category"), 1)
         \o CompareEntities(nodes, attrs, keys, k + 1)

detectAttributeContradictions(text, nodes) ==
  CompareEntities(nodes, extractAttributes(text),
                  KeysOf(extractAttributes(text), "key"), 1)

-----------------------------------------------------------------------------
(* Contradiction detection: detectTimelineContradictions *)

\* the death recorded for a match over tokens i..j that names token n
Death(text, i, j, n) ==
  [name |-> Lower(text[n]), offset |-> TokOffset(text, i),
   context |-> MatchContext(text, i, j)]

\* (\w+)\s+(?:died|was\s+killed|passed\s+away|perished) with the gi flags,
\* scanning from token i.  The lexicon has no "passed" and no "perished".
RECURSIVE DiedMatches(_, _)
DiedMatches(text, i) ==
  IF i > Len(text) THEN <<>>
  ELSE IF i + 1 <= Len(text) /\ IsWord(text[i]) /\ Lower(text[i + 1]) = "died"
    THEN <<Death(text, i, i + 1, i)>> \o DiedMatches(text, i + 2)
  ELSE IF /\ i + 2 <= Len(text) /\ IsWord(text[i])
          /\ Lower(text[i + 1]) = "was" /\ Lower(text[i + 2]) = "killed"
    THEN <<Death(text, i, i + 2, i)>> \o DiedMatches(text, i + 3)
  ELSE DiedMatches(text, i + 1)

\* (?:killed|murdered|slew)\s+(\w+) with the gi flags, scanning from token i.
\* The lexicon has no "murdered" and no "slew".
RECURSIVE KilledMatches(_, _)
KilledMatches(text, i) ==
  IF i > Len(text) THEN <<>>
  ELSE IF i + 1 <= Len(text) /\ Lower(text[i]) = "killed" /\ IsWord(text[i + 1])
    THEN <<Death(text, i, i + 1, i + 1)>> \o KilledMatches(text, i + 2)
  ELSE KilledMatches(text, i + 1)

\* the matches of DEATH_PATTERNS in the order the loops find them: pattern by
\* pattern.  The lexicon has no "death", "demise" or "passing", so the third
\* pattern matches nothing.
DeathMatches(text) == DiedMatches(text, 1) \o KilledMatches(text, 1)

\* if (!deathEvents.has(name)) deathEvents.set(name, ...): the first match
\* of every name, in the order of the first matches
RECURSIVE FirstPerName(_)
FirstPerName(matches) ==
  IF matches = <<>> THEN <<>>
  ELSE LET sofar == FirstPerName(SubSeq(matches, 1, Len(matches) - 1))
       IN IF \E k \in 1..Len(sofar) : sofar[k].name = matches[Len(matches)].name
            THEN sofar
            ELSE Append(sofar, matches[Len(matches)])

deathEvents(text) == FirstPerName(DeathMatches(text))

\* characters of the text read after the start of a mention
ActionWindow == 100

\* characters of that context quoted in the contradiction
ClaimSnippet == 50

\* /(?:said|asked|walked|ran|looked|smiled|nodded|shook)/i
actionPatterns ==
  {"said", "asked", "walked", "ran", "looked", "smiled", "nodded", "shook"}

\* actionPatterns.test(text.slice(mention.offset, mention.offset + 100))
ActsAt(text, offset) ==
  \E verb \in actionPatterns :
    Includes(Slice(Chars(text), offset, offset + ActionWindow), Spell(verb))

TimelineSeverity == 95

TimelineContradiction(text, entity, death, mention) ==
  [type |-> "timeline",
   entityId |-> <<entity.id>>,
   entityName |-> entity.name,
   claim1 |-> [text |-> death.context, offset |-> death.offset, value |-> "death"],
   claim2 |-> [text |-> [from |-> mention.offset,
                         to |-> Min(Len(Chars(text)),
                                    mention.offset + Min(ActionWindow, ClaimSnippet))],
               offset |-> mention.offset, value |-> "action after death"],
   severity |-> TimelineSeverity]

\* a loop over the mentions that goes on after a contradiction was pushed
RECURSIVE EveryAction(_, _, _, _, _)
EveryAction(text, entity, death, mentions, k) ==
  IF k > Len(mentions) THEN <<>>
  ELSE (IF ActsAt(text, mentions[k].offset)
          THEN <<TimelineContradiction(text, entity, death, mentions[k])>>
          ELSE <<>>)
         \o EveryAction(text, entity, death, mentions, k + 1)

\* the loop over postDeathMentions from mention k on: it ends with the first
\* contradiction pushed (break)
RECURSIVE FirstAction(_, _, _, _, _)
FirstAction(text, entity, death, mentions, k) ==
  IF k > Len(mentions) THEN <<>>
  ELSE IF ActsAt(text, mentions[k].offset)
    THEN <<TimelineContradiction(text, entity, death, mentions[k])>>
  ELSE FirstAction(text, entity, death, mentions, k + 1)

\* entity.mentions.filter(m => m.offset > death.offset)
postDeathMentions(entity, death) ==
  FilterSeq(entity.mentions, {m \in Elems(entity.mentions) : m.offset > death.offset})

\* the loop over deathEvents from entry k on; a name without a node is skipped
RECURSIVE ActingDead(_, _, _, _)
ActingDead(text, nodes, deaths, k) ==
  IF k > Len(deaths) THEN <<>>
  ELSE (IF FindName(nodes, <<deaths[k].name>>) = 0 THEN <<>>
        ELSE FirstAction(text, nodes[FindName(nodes, <<deaths[k].name>>)], deaths[k],
               postDeathMentions(nodes[FindName(nodes, <<deaths[k].name>>)], deaths[k]),
               1))
         \o ActingDead(text, nodes, deaths, k + 1)

\* detectTimelineContradictions never reads its timeline parameter
detectTimelineContradictions(text, nodes, timeline) ==
  ActingDead(text, nodes, deathEvents(text), 1)

-----------------------------------------------------------------------------
(* Contradiction detection: detectContradictions *)

\* a list left in the order it was filled
Unsorted(list, field) == list

\* contradictions.sort((a, b) => b.severity - a.severity)
SortBySeverity(list, field) == SortDesc(list, field)

\* the sentences of the texts handed to detectContradictions
Clauses ==
  {<<"Sarah", "'s", "blue", "eyes", "sparkled", ".">>,
   <<"Sarah", "'s", "green", "eyes", "sparkled", ".">>,
   <<"Sarah", "'s", "azure", "eyes", "sparkled", ".">>,
   <<"Sarah", "was", "30", "years", "old", ".">>,
   <<"Sarah", "was", "32", "years", "old", ".">>,
   <<"Sarah", "was", "33", "years", "old", ".">>,
   <<"Marcus", "died", ".">>,
   <<"Marcus", "smiled", ".">>,
   <<"Sarah", "killed", "Marcus", ".">>}

\* sentences of a text handed to detectContradictions
MaxClauses == 3

\* n times the word
RECURSIVE Repeated(_, _)
Repeated(word, n) == IF n = 0 THEN <<>> ELSE <<word>> \o Repeated(word, n - 1)

\* a death, and the dead acting so many words after they are named again
LateActionText(words) ==
  <<"Marcus", "died", ".", "Marcus">> \o Repeated("together", words)
    \o <<"smiled", ".">>

\* two pairs of conflicting eye colours, and a death followed by an action
MixedText ==
  <<"Sarah", "'s", "blue", "eyes", "sparkled", ".",
    "Sarah", "'s", "green", "eyes", "sparkled", ".",
    "Sarah", "'s", "blue", "eyes", "sparkled", ".",
    "Marcus", "died", ".", "Marcus", "smiled", ".">>

\* the action of the first late text ends inside the window, that of the
\* second begins at its last character
DetectTexts ==
  TextsUpTo(Clauses, MaxClauses)
    \cup {LateActionText(9), LateActionText(10), MixedText}

\* the nodes of the graph the caller passes: those extractEntities returns
\* for the text, or none
NodesFor(text) ==
  {extractEntities([text |-> text, paragraphs |-> <<>>, dialogues |-> <<>>,
                    chapterId |-> "c1"], 1, "up").nodes,
   <<>>}

\* the events of the timeline the caller passes: none or one
TimelinesFor(text) == {<<>>, <<[offset |-> 0, type |-> "event"]>>}

\* the call
DetectStart ==
  /\ cd.phase = "none"
  /\ \E text \in DetectTexts :
       \E nodes \in NodesFor(text), timeline \in TimelinesFor(text) :
         cd' = [NoCd EXCEPT !.phase = "attributes", !.text = text,
                            !.nodes = nodes, !.timeline = timeline]
  /\ UNCHANGED <<extractorVars, ec, ag, ed>>

\* contradictions.push(...detectAttributeContradictions(text, entities))
DetectAttributes ==
  /\ cd.phase = "attributes"
  /\ cd' = [cd EXCEPT !.phase = "timeline",
                      !.attribute = detectAttributeContradictions(cd.text, cd.nodes)]
  /\ UNCHANGED <<extractorVars, ec, ag, ed>>

\* contradictions.push(...detectTimelineContradictions(text, entities, timeline))
DetectTimeline ==
  /\ cd.phase = "timeline"
  /\ cd' = [cd EXCEPT !.phase = "sort",
                      !.deaths = deathEvents(cd.text),
                      !.timelineFound =
                         detectTimelineContradictions(cd.text, cd.nodes, cd.timeline)]
  /\ UNCHANGED <<extractorVars, ec, ag, ed>>

\* the sort and the return
DetectReturn ==
  /\ cd.phase = "sort"
  /\ cd' = [cd EXCEPT !.phase = "returned",
                      !.result = SortBySeverity(cd.attribute \o cd.timelineFound,
                                                "severity")]
  /\ UNCHANGED <<extractorVars, ec, ag, ed>>

NextContradictions ==
  \/ DetectStart
  \/ DetectAttributes
  \/ DetectTimeline
  \/ DetectReturn

\* texts are checked for contradictions
SpecContradictions == Init /\ [][NextContradictions]_vars

-----------------------------------------------------------------------------
(* Properties of detectContradictions *)

\* detectAttributeContradictions has returned
AttributesDone == cd.phase \in {"timeline", "sort", "returned"}

\* the pairs of extractions of one entity name and one category
GroupPairs(attrs) ==
  {pair \in (1..Len(attrs)) \X (1..Len(attrs)) :
     /\ pair[1] < pair[2]
     /\ Lower(attrs[pair[1]].entityName) = Lower(attrs[pair[2]].entityName)
     /\ attrs[pair[1]].category = attrs[pair[2]].category}

\* two ages no more than two years apart
AgesClose(a, b) ==
  /\ a.category = "age"
  /\ a.value \in Numerals /\ b.value \in Numerals
  /\ parseInt(a.value) - parseInt(b.value) \in -2..2

\* two values of one colour-synonym bucket
SameBucket(a, b) ==
  \E bucket \in colorVariations : {a.value, b.value} \subseteq bucket

Incompatible(a, b) ==
  ~(a.value = b.value \/ AgesClose(a, b) \/ SameBucket(a, b))

\* the contradictions of a list that confront these two extractions
Confronting(list, a, b) ==
  {k \in 1..Len(list) :
     /\ list[k].claim1.offset = a.offset /\ list[k].claim1.value = a.value
     /\ list[k].claim2.offset = b.offset /\ list[k].claim2.value = b.value}

\* C21: for every entity name and category, the attribute detector emits
\* exactly one contradiction of type attribute and severity 0.8 for each
\* unordered pair of incompatible extractions of the group, none for a pair
\* whose values are identical, are ages no more than 2 apart, or lie in one
\* colour-synonym bucket, and nothing else.
C21_OnePerIncompatiblePair ==
  AttributesDone =>
    LET attrs == extractAttributes(cd.text)
    IN /\ \A pair \in GroupPairs(attrs) :
            Cardinality(Confronting(cd.attribute, attrs[pair[1]], attrs[pair[2]]))
              = IF Incompatible(attrs[pair[1]], attrs[pair[2]]) THEN 1 ELSE 0
       /\ \A k \in 1..Len(cd.attribute) :
            /\ cd.attribute[k].type = "attribute"
            /\ cd.attribute[k].severity = 80
            /\ \E pair \in GroupPairs(attrs) :
                 k \in Confronting(cd.attribute, attrs[pair[1]], attrs[pair[2]])

\* a text with ages 30, 32 and 33: one pair within the tolerance, one that
\* conflicts, and the contradiction of the only pair more than 2 apart
W21_AgesCloseAndApart ==
  /\ AttributesDone
  /\ Len(cd.attribute) = 1
  /\ cd.attribute[1].claim1.value = "30" /\ cd.attribute[1].claim2.value = "33"
  /\ \E i, j \in 1..Len(extractAttributes(cd.text)) :
       /\ extractAttributes(cd.text)[i].value = "32"
       /\ extractAttributes(cd.text)[j].value = "33"

\* detectTimelineContradictions has returned
TimelineDone == cd.phase \in {"sort", "returned"}

\* an action verb lies within the 100 characters that start at the offset
VerbWithin(text, offset) ==
  \E verb \in actionPatterns :
    \E p \in offset..(offset + 100 - Len(Spell(verb))) :
      /\ p + Len(Spell(verb)) <= Len(Chars(text))
      /\ \A c \in 1..Len(Spell(verb)) : Chars(text)[p + c] = Spell(verb)[c]

\* the mentions of the nodes of this name that come after the offset and
\* are followed by an action
ActingAfter(text, nodes, name, offset) ==
  {pair \in (1..Len(nodes)) \X (0..Len(Chars(text))) :
     /\ LowerName(nodes[pair[1]].name) = <<name>>
     /\ \E m \in 1..Len(nodes[pair[1]].mentions) :
          nodes[pair[1]].mentions[m].offset = pair[2]
     /\ pair[2] > offset
     /\ VerbWithin(text, pair[2])}

\* the timeline contradictions of a list about the death at this offset
AboutDeath(list, name, offset) ==
  {k \in 1..Len(list) :
     /\ LowerName(list[k].entityName) = <<name>>
     /\ list[k].claim1.offset = offset}

\* C22: the timeline detector emits at most one contradiction for each
\* entity with a recorded death: exactly one, of type timeline and severity
\* 0.95, when the graph node of that name has a mention after the death
\* offset whose following 100 characters contain an action verb, and none
\* otherwise.
C22_OnePerActingDead ==
  TimelineDone =>
    /\ \A d \in 1..Len(cd.deaths) :
         Cardinality(AboutDeath(cd.timelineFound, cd.deaths[d].name, cd.deaths[d].offset))
           = IF ActingAfter(cd.text, cd.nodes, cd.deaths[d].name,
                            cd.deaths[d].offset) # {}
               THEN 1 ELSE 0
    /\ \A k \in 1..Len(cd.timelineFound) :
         /\ cd.timelineFound[k].type = "timeline"
         /\ cd.timelineFound[k].severity = 95
         /\ \E d \in 1..Len(cd.deaths) :
              k \in AboutDeath(cd.timelineFound, cd.deaths[d].name, cd.deaths[d].offset)

\* a dead character who acts at two later mentions: one contradiction
W22_TwoActionsOneContradiction ==
  /\ TimelineDone
  /\ Len(cd.timelineFound) = 1
  /\ \E d \in 1..Len(cd.deaths) :
       Cardinality(ActingAfter(cd.text, cd.nodes, cd.deaths[d].name,
                               cd.deaths[d].offset)) >= 2

\* the offsets of the death-indicating matches that name this entity
DeathOffsets(text, name) ==
  {DeathMatches(text)[k].offset :
     k \in {k \in 1..Len(DeathMatches(text)) : DeathMatches(text)[k].name = name}}

\* C23: the death offset recorded for an entity is the offset of the
\* earliest death-indicating match that names it, whichever pattern found it.
C23_EarliestDeathRecorded ==
  TimelineDone =>
    \A d \in 1..Len(cd.deaths) :
      /\ cd.deaths[d].offset \in DeathOffsets(cd.text, cd.deaths[d].name)
      /\ \A o \in DeathOffsets(cd.text, cd.deaths[d].name) : cd.deaths[d].offset <= o

\* detectContradictions has returned
DetectDone == cd.phase = "returned"

\* C24: detectContradictions returns an empty list whenever the graph has no
\* nodes, and whenever the timeline has no events, whatever the text contains.
C24_EmptyGraphOrTimelineEmptyList ==
  DetectDone /\ (cd.nodes = <<>> \/ cd.timeline = <<>>) => cd.result = <<>>

\* the contradictions found, in the order they were found
Found == cd.attribute \o cd.timelineFound

\* the place of a contradiction in the returned list
PlaceOf(c) == CHOOSE k \in 1..Len(cd.result) : cd.result[k] = c

\* C25: the returned list contains every attribute contradiction and every
\* timeline contradiction and nothing else, its severities never increase,
\* and contradictions of equal severity keep the order they were found in.
C25_AllSortedStable ==
  DetectDone =>
    /\ Len(cd.result) = Len(Found)
    /\ \A k \in 1..Len(Found) : \E r \in 1..Len(cd.result) : cd.result[r] = Found[k]
    /\ \A i, j \in 1..Len(cd.result) :
         i < j => cd.result[i].severity >= cd.result[j].severity
    /\ \A i, j \in 1..Len(Found) :
         i < j /\ Found[i].severity = Found[j].severity
           => PlaceOf(Found[i]) < PlaceOf(Found[j])

\* two attribute contradictions were found before a timeline contradiction,
\* which is returned first
W25_TimelineMovedToFront ==
  /\ DetectDone
  /\ Len(cd.attribute) = 2 /\ Len(cd.timelineFound) = 1
  /\ cd.result = cd.timelineFound \o cd.attribute

-----------------------------------------------------------------------------
(* Further properties of extractEntities *)

\* the last call of extractEntities has ended
CallEnded == pc = "idle" /\ outcome \in {"extracted", "raised"}

\* C26: when the scan yields no entity candidate, in particular for the
\* empty text without paragraphs and dialogues, extractEntities returns a
\* graph without nodes and without edges.
C26_NoCandidateEmptyGraph ==
  CallEnded /\ AllRaw(ex.text, ex.dialogues) = <<>> =>
    /\ outcome = "extracted"
    /\ Returned.nodes = <<>>
    /\ Returned.edges = <<>>

\* position in the raw entities at which a name was discovered, 0 when the
\* scan never found it
Discovered(raws, name) ==
  IF \E k \in 1..Len(raws) : LowerName(raws[k].name) = LowerName(name)
    THEN CHOOSE k \in 1..Len(raws) :
           /\ LowerName(raws[k].name) = LowerName(name)
           /\ \A h \in 1..(k - 1) : LowerName(raws[h].name) # LowerName(name)
    ELSE 0

\* C28: the nodes of the graph returned by extractEntities are ordered by
\* non-increasing mentionCount, nodes of equal mentionCount in the order of
\* their first discovery, also when pronoun resolution added mentions.
C28_ReturnedNodesOrdered ==
  outcome = "extracted" =>
    \A i, j \in 1..Len(Returned.nodes) :
      i < j =>
        /\ Returned.nodes[i].mentionCount >= Returned.nodes[j].mentionCount
        /\ Returned.nodes[i].mentionCount = Returned.nodes[j].mentionCount
             => Discovered(AllRaw(ex.text, ex.dialogues), Returned.nodes[i].name)
                  < Discovered(AllRaw(ex.text, ex.dialogues), Returned.nodes[j].name)

-----------------------------------------------------------------------------
(* useEditorComments *)

\* comments of a list handed to the hook
MaxComments == 2

CommentIds == {"a", "b"}

Severities == {"error", "warning", "info"}

CritiqueIntensities == {"developmental", "standard", "intensive"}

\* the inline comments a caller or a chapter can hold; two comments of a list
\* may carry the same id
InlineComments ==
  [id : CommentIds, severity : Severities, dismissed : BOOLEAN]

RECURSIVE CommentLists(_)
CommentLists(n) ==
  IF n = 0 THEN {<<>>}
  ELSE CommentLists(n - 1)
         \cup {Append(l, c) : l \in CommentLists(n - 1), c \in InlineComments}

\* the switch on critiqueIntensity
allowedSeverities(critiqueIntensity) ==
  CASE critiqueIntensity = "developmental" -> {"error"}
    [] critiqueIntensity = "standard" -> {"error", "warning"}
    [] OTHER -> {"error", "warning", "info"}

\* a filter that looks at the severity only
AllowedOnly(inlineComments, critiqueIntensity) ==
  FilterSeq(inlineComments,
            {c \in Elems(inlineComments) :
               c.severity \in allowedSeverities(critiqueIntensity)})

\* the useMemo of visibleComments
visibleComments(inlineComments, critiqueIntensity) ==
  FilterSeq(inlineComments,
            {c \in Elems(inlineComments) :
               ~c.dismissed /\ c.severity \in allowedSeverities(critiqueIntensity)})

\* the render that follows a change of state: the memo is computed again
Rendered(inlineComments, critiqueIntensity, op, arg) ==
  [inlineComments |-> inlineComments, critiqueIntensity |-> critiqueIntensity,
   visibleComments |-> visibleComments(inlineComments, critiqueIntensity),
   op |-> op, arg |-> arg]

SetInlineComments ==
  /\ \E comments \in CommentLists(MaxComments) :
       ec' = Rendered(comments, ec.critiqueIntensity, "set", "")
  /\ UNCHANGED <<extractorVars, cd, ag, ed>>

\* the effect on activeChapter: the comments of the new chapter, or none
\* when there is no chapter or the chapter has no comments
ChapterChanged ==
  /\ \E comments \in CommentLists(MaxComments) :
       ec' = Rendered(comments, ec.critiqueIntensity, "chapter", "")
  /\ UNCHANGED <<extractorVars, cd, ag, ed>>

DismissComment ==
  /\ \E commentId \in CommentIds :
       ec' = Rendered([k \in 1..Len(ec.inlineComments) |->
                         IF ec.inlineComments[k].id = commentId
                           THEN [ec.inlineComments[k] EXCEPT !.dismissed = TRUE]
                           ELSE ec.inlineComments[k]],
                      ec.critiqueIntensity, "dismiss", commentId)
  /\ UNCHANGED <<extractorVars, cd, ag, ed>>

ClearComments ==
  /\ ec' = Rendered(<<>>, ec.critiqueIntensity, "clear", "")
  /\ UNCHANGED <<extractorVars, cd, ag, ed>>

\* setCritiqueIntensity of the settings store
SetCritiqueIntensity ==
  /\ \E intensity \in CritiqueIntensities :
       ec' = Rendered(ec.inlineComments, intensity, "intensity", intensity)
  /\ UNCHANGED <<extractorVars, cd, ag, ed>>

NextComments ==
  \/ SetInlineComments
  \/ ChapterChanged
  \/ DismissComment
  \/ ClearComments
  \/ SetCritiqueIntensity

\* comments are set, dismissed and cleared, and the intensity is changed
SpecComments == Init /\ [][NextComments]_vars

\* the severities an intensity lets through
Shown(intensity) ==
  IF intensity = "developmental" THEN {"error"}
  ELSE IF intensity = "standard" THEN {"error", "warning"}
  ELSE Severities

ShownNow(c) == ~c.dismissed /\ c.severity \in Shown(ec.critiqueIntensity)

\* a call of dismissComment changes the dismissed flag of the comments with
\* the given id and nothing else
DismissKeeps ==
  ec'.op = "dismiss" =>
    /\ Len(ec'.inlineComments) = Len(ec.inlineComments)
    /\ \A k \in 1..Len(ec.inlineComments) :
         /\ ec'.inlineComments[k].id = ec.inlineComments[k].id
         /\ ec'.inlineComments[k].severity = ec.inlineComments[k].severity
         /\ ec'.inlineComments[k].dismissed
              = (ec.inlineComments[k].dismissed \/ ec.inlineComments[k].id = ec'.arg)

\* C27: after any sequence of setInlineComments, dismissComment,
\* clearComments and changes of the critique intensity, visibleComments is
\* the list of the inline comments that are not dismissed and whose severity
\* the intensity allows (developmental: error; standard: error and warning;
\* intensive: error, warning and info), in their order; a dismissed comment
\* stays in inlineComments and is never in visibleComments.
C27_VisibleIsFiltered ==
  /\ [](ec.visibleComments = SelectSeq(ec.inlineComments, ShownNow))
  /\ [](\A k \in 1..Len(ec.visibleComments) : ~ec.visibleComments[k].dismissed)
  /\ [][DismissKeeps]_vars

\* a comment that the intensity would show was dismissed, and the other
\* comment of the list is shown
W27_DismissedOneShown ==
  /\ ec.op = "dismiss"
  /\ Len(ec.visibleComments) = 1
  /\ \E i, j \in 1..Len(ec.inlineComments) :
       /\ ec.inlineComments[i].dismissed
       /\ ec.inlineComments[i].id = ec.arg
       /\ ec.inlineComments[i].severity \in Shown(ec.critiqueIntensity)
       /\ ec.visibleComments = <<ec.inlineComments[j]>>

-----------------------------------------------------------------------------
(* useAgentOrchestrator: sendMessage and abort *)

\* function calls of one reply of the model
MaxCalls == 2

\* replies with function calls one request gets
MaxRounds == 2

ToolNames == {"update_manuscript", "query_lore"}

\* the function calls a reply can carry
RECURSIVE CallLists(_)
CallLists(n) ==
  IF n = 0 THEN {<<>>}
  ELSE CallLists(n - 1) \cup {Append(l, t) : l \in CallLists(n - 1), t \in ToolNames}

\* a reply: its function calls, or the rejection of the promise
Replies(rounds) ==
  {[ok |-> TRUE, calls |-> c] :
     c \in IF rounds < MaxRounds THEN CallLists(MaxCalls) ELSE {<<>>}}
    \cup {[ok |-> FALSE, calls |-> <<>>]}

\* setMessages(prev => [...prev, message])
Say(a, role, kind, r) ==
  [a EXCEPT !.messages = Append(@, [role |-> role, kind |-> kind, request |-> r])]

\* the request is over
Over(a, r) == [a EXCEPT !.req[r].pc = "done", !.req[r].calls = <<>>]

\* finally: if (!signal.aborted) setIsProcessing(false)
Finally(a, r) ==
  Over(IF r \in a.aborted THEN a ELSE [a EXCEPT !.isProcessing = FALSE], r)

\* the tool message of the first call left and the start of executeToolCall:
\* the status is set and the action is called
StartCall(a, r) ==
  [Say(a, "model", "tool", r) EXCEPT
     !.status = "executing",
     !.executed = Append(@, [request |-> r, tool |-> a.req[r].calls[1]]),
     !.req[r].pc = "awaitTool"]

\* the final response: the message and the status, then finally
FinalResponse(a, r) ==
  Finally([Say(a, "model", "final", r) EXCEPT !.status = "idle"], r)

\* catch: nothing when the signal is aborted, the error message otherwise
Caught(a, r) ==
  IF r \in a.aborted THEN Finally(a, r)
  ELSE Finally([Say(a, "model", "error", r) EXCEPT !.status = "error"], r)

\* what sendMessage does with a reply, up to its next await or its end
OnReply(a, r, reply) ==
  IF ~reply.ok THEN Caught(a, r)
  ELSE IF reply.calls = <<>> THEN FinalResponse(a, r)
  ELSE IF r \in a.aborted THEN Finally(a, r)
  ELSE StartCall([a EXCEPT !.req[r].calls = reply.calls,
                           !.req[r].rounds = @ + 1], r)

\* the end of executeToolCall (a raised action sets the status to error and
\* is reported as the result) and the loop from there to the next await
OnToolDone(a, r, raised) ==
  LET b == [a EXCEPT !.status = IF raised THEN "error" ELSE @,
                     !.req[r].calls = Tail(@)]
  IN IF b.req[r].calls # <<>> THEN StartCall(b, r)
     ELSE IF r \in b.aborted THEN Finally(b, r)
     ELSE [b EXCEPT !.status = "thinking", !.req[r].pc = "awaitReply"]

\* sendMessage up to its first await; a blank message does nothing
SendMessage ==
  /\ \E messageText \in {"", "hello"}, r \in 1..MaxRequests :
       /\ ag.req[r].pc = "unsent"
       /\ \A q \in 1..(r - 1) : ag.req[q].pc # "unsent"
       /\ ag' = IF messageText = "" THEN ag
                ELSE [Say(ag, "user", "user", r) EXCEPT
                        !.aborted = IF ag.current = 0 THEN @ ELSE @ \cup {ag.current},
                        !.current = r,
                        !.isProcessing = TRUE,
                        !.status = "thinking",
                        !.req[r].pc = "awaitReply"]
  /\ UNCHANGED <<extractorVars, cd, ec, ed>>

\* chatRef.current.sendMessage settles
Reply ==
  /\ \E r \in 1..MaxRequests :
       /\ ag.req[r].pc = "awaitReply"
       /\ \E reply \in Replies(ag.req[r].rounds) : ag' = OnReply(ag, r, reply)
  /\ UNCHANGED <<extractorVars, cd, ec, ed>>

\* the action called by executeToolCall settles
ToolDone ==
  /\ \E r \in 1..MaxRequests :
       /\ ag.req[r].pc = "awaitTool"
       /\ \E raised \in BOOLEAN : ag' = OnToolDone(ag, r, raised)
  /\ UNCHANGED <<extractorVars, cd, ec, ed>>

Abort ==
  /\ ag' = [ag EXCEPT !.aborted = IF ag.current = 0 THEN @ ELSE @ \cup {ag.current},
                      !.isProcessing = FALSE,
                      !.status = "idle"]
  /\ UNCHANGED <<extractorVars, cd, ec, ed>>

NextAgent ==
  \/ SendMessage
  \/ Reply
  \/ ToolDone
  \/ Abort

\* messages are sent and aborted while the model and the tools answer
SpecAgent == Init /\ [][NextAgent]_vars

\* the requests that go on in this step
Continuing == {r \in 1..MaxRequests : ag.req[r].pc # "unsent" /\ ag'.req[r] # ag.req[r]}

\* C29: a sendMessage request that was aborted by abort() or superseded by a
\* newer sendMessage has no further effect: it appends no message, executes
\* no further tool call and changes neither status nor isProcessing.
C29_AbortedHasNoEffect ==
  [][\A r \in Continuing :
       r \in ag.aborted =>
         /\ ag'.messages = ag.messages
         /\ ag'.executed = ag.executed
         /\ ag'.status = ag.status
         /\ ag'.isProcessing = ag.isProcessing]_vars

-----------------------------------------------------------------------------
(* App Brain edit actions: runExclusiveEdit, updateManuscript, appendText,   *)
(* undo.  A document is a sequence of words.  The editor's commit and undo  *)
(* are those of useDocumentHistory; redo is left out.                        *)

\* edits submitted in one behaviour
MaxEdits == 3

\* the calls of the edit actions: an update_manuscript call without
\* search_text has searchText undefined
EditCalls ==
  {[kind |-> "update", search |-> x, replacement |-> y] :
     x \in {"a", "b", "undefined"}, y \in {"b", "c"}}
    \cup {[kind |-> "append", search |-> "", replacement |-> y] : y \in {"b", "c"}}
    \cup {[kind |-> "undo", search |-> "", replacement |-> ""]}

\* String.prototype.replace with a string pattern: the first occurrence
RECURSIVE ReplaceFirst(_, _, _)
ReplaceFirst(text, search, replacement) ==
  IF text = <<>> THEN <<>>
  ELSE IF Head(text) = search THEN <<replacement>> \o Tail(text)
  ELSE <<Head(text)>> \o ReplaceFirst(Tail(text), search, replacement)

\* useDocumentHistory commit: the new text, and a history item that keeps
\* the text it replaces
commit(doc, newText) ==
  [doc EXCEPT !.history = Append(@, doc.text), !.text = newText]

\* useDocumentHistory undo: the previous content of the last history item
undo(doc) ==
  IF doc.history = <<>> THEN doc
  ELSE [doc EXCEPT !.text = doc.history[Len(doc.history)],
                   !.history = SubSeq(@, 1, Len(@) - 1)]

\* the body of updateManuscript over the text its closure holds; without
\* searchText, searchText.slice raises
UpdateRaises(currentText, call) ==
  call.search = "undefined" /\ ~IncludesElem(currentText, "undefined")

updateManuscript(doc, currentText, call) ==
  IF ~IncludesElem(currentText, call.search) THEN doc
  ELSE commit(doc, ReplaceFirst(currentText, call.search, call.replacement))

\* the body of appendText over the text its closure holds
appendText(doc, currentText, call) ==
  commit(doc, currentText \o <<"\n\n", call.replacement>>)

\* the body of an edit: what it leaves of the document
EditBody(doc, edit) ==
  IF edit.call.kind = "update" THEN updateManuscript(doc, edit.currentText, edit.call)
  ELSE IF edit.call.kind = "append" THEN appendText(doc, edit.currentText, edit.call)
  ELSE undo(doc)

\* sendMessage is called after a render: the request holds the actions of
\* that render, and with them the text of that render
NewRequest ==
  /\ ed.closure # ed.text
  /\ ed' = [ed EXCEPT !.closure = ed.text]
  /\ UNCHANGED <<extractorVars, cd, ec, ag>>

\* runExclusiveEdit: the body is chained to the promise in editMutexRef,
\* which then waits for the new edit
SubmitEdit ==
  /\ Len(ed.queue) < MaxEdits
  /\ \E call \in EditCalls :
       ed' = [ed EXCEPT !.queue = Append(@, [call |-> call, currentText |-> ed.closure,
                                             after |-> ed.mutex, state |-> "queued"]),
                        !.mutex = Len(ed.queue) + 1]
  /\ UNCHANGED <<extractorVars, cd, ec, ag>>

\* the promise an edit is chained to has settled: fulfilled or rejected
Settled(queue, k) ==
  IF k = 0 THEN TRUE ELSE queue[k].state \in {"fulfilled", "rejected"}

\* the body of a queued edit runs and settles
RunEdit ==
  /\ \E k \in 1..Len(ed.queue) :
       /\ ed.queue[k].state = "queued"
       /\ Settled(ed.queue, ed.queue[k].after)
       /\ ed' = IF ed.queue[k].call.kind = "update"
                     /\ UpdateRaises(ed.queue[k].currentText, ed.queue[k].call)
                  THEN [ed EXCEPT !.queue[k].state = "rejected"]
                  ELSE [EditBody(ed, ed.queue[k]) EXCEPT !.queue[k].state = "fulfilled"]
  /\ UNCHANGED <<extractorVars, cd, ec, ag>>

NextEdits ==
  \/ NewRequest
  \/ SubmitEdit
  \/ RunEdit

\* edits are submitted and applied
SpecEdits == Init /\ [][NextEdits]_vars

\* the edits whose body runs in this step
Running == {k \in 1..Len(ed.queue) : ed.queue[k].state = "queued"
                                      /\ ed'.queue[k].state # "queued"}

\* the text an edit leaves when it is computed from this text
Applied(text, call, history) ==
  IF call.kind = "update"
    THEN (IF IncludesElem(text, call.search)
            THEN ReplaceFirst(text, call.search, call.replacement) ELSE text)
  ELSE IF call.kind = "append" THEN text \o <<"\n\n", call.replacement>>
  ELSE IF history = <<>> THEN text ELSE history[Len(history)]

\* C30: the edits submitted through the App Brain actions are applied one at
\* a time in submission order and none is lost: the body of an edit starts
\* only after every edit submitted before it has settled, fulfilled or
\* rejected, and an edit that is applied is computed from the document text
\* left by the edit applied before it.
C30_EditsInOrderOnLatestText ==
  [][\A k \in Running :
       /\ \A j \in 1..(k - 1) : ed.queue[j].state \in {"fulfilled", "rejected"}
       /\ ed'.queue[k].state = "fulfilled"
            => ed'.text = Applied(ed.text, ed.queue[k].call, ed.history)]_vars

=============================================================================
